---- MODULE Spec2Model ----
(***************************************************************************)
(* Model of supakit's class-based dispatcher (src/supakit.ts, class        *)
(* Supakit and the helpers that follow it): route registration on the      *)
(* root instance and through the proxies of base()/group(), and the        *)
(* per-request pipeline of Supakit.serve(): preflight, route find,         *)
(* middleware chain, extraction/validation, handler, normalization,        *)
(* top-level catch.                                                        *)
(*                                                                         *)
(* Spec       registration on the root, then any request                   *)
(* NormSpec   two fixed routes, the values a handler can hand back         *)
(* ServeSpec  one fixed route with middleware and schemas, failures        *)
(* PipeSpec   a route with middleware and schemas and a bare one           *)
(* PipeLive   the same, the callback running to completion                 *)
(* SettleSpec the same, only the dispatcher's own code known to run on     *)
(* FormSpec   a schema-less and a checked route, multipart bodies          *)
(* DuoSpec    the program of PipeSpec with two requests in flight          *)
(* RegSpec    registration through nested groups                           *)
(* GroupSpec  groups made from the root and from any group                 *)
(* AppendSpec registration going on after a first route                    *)
(* SingleSpec the single-handler serve(handler, options) of src/serve.ts   *)
(*                                                                         *)
(* User code (middleware, handlers), the schema validator and the request  *)
(* payload are external: their outcomes are nondeterministic choices made  *)
(* at the point where the dispatcher consults them.                        *)
(***************************************************************************)
EXTENDS Integers, Sequences, FiniteSets, TLC

VARIABLES
  routes,            \* Supakit.routes of the root instance (the registry)
  middlewares,       \* Supakit.middlewares of the root instance
  proxies,           \* the group proxies made by base()/group(), in creation order
  regLog,            \* per registered route: the call that registered it
  serving,           \* serve() has been called
  options,           \* the options given to the single-handler serve() of src/serve.ts
  parked,            \* the locals of a second invocation of the callback, suspended at an await
  pc,                \* position of the request callback
  req,               \* the request being dispatched
  route,             \* index in routes of the matched route, 0 when none
  idx,               \* the closure variable idx of serve()
  depth,             \* number of middleware frames awaiting their next()
  shortAt,           \* index of the middleware that returned without next(), -1 if none
  replaced,          \* some middleware returned other than its continuation's result
  result,            \* completion travelling up the chain (return or throw)
  response,          \* the Response handed back to denoServe
  bodyReads,         \* number of req.json()/req.formData() calls issued
  formData,          \* local formData of the terminal action
  validatedQuery,    \* local validatedQuery of the terminal action
  validatedHeaders,  \* local validatedHeaders of the terminal action
  validatedBody,     \* local validatedBody of the terminal action
  ctx,               \* the SupakitContext passed to the handler
  handlerCalls,      \* times the handler was invoked for this request
  ran,               \* indices of the middleware invoked, in order
  steps,             \* extraction steps performed, in order
  failed,            \* the segment whose validation failed, "" if none
  terminal           \* completion of the terminal action (extraction + handler)

vars == <<routes, middlewares, proxies, regLog, serving, options, parked, pc, req, route, idx, depth, shortAt,
          replaced, result, response, bodyReads, formData, validatedQuery,
          validatedHeaders, validatedBody, ctx, handlerCalls, ran, steps,
          failed, terminal>>

regVars == <<routes, middlewares, proxies, regLog, serving, options, parked>>
reqVars == <<req, route, idx, depth, shortAt, replaced, result, response, bodyReads,
             formData, validatedQuery, validatedHeaders, validatedBody, ctx,
             handlerCalls, ran, steps, failed, terminal>>

-----------------------------------------------------------------------------
(* Bounds and input sets *)

MaxRoutes == 2
MaxGroups == 3
MaxGroupRoutes == 1
MaxAppendRoutes == 3

RegMethods == {"GET", "POST"}
ReqMethods == {"GET", "POST", "OPTIONS"}
\* paths are sequences of characters
RegPaths == {<<"/", "a">>, <<"b">>}
ReqPaths == {<<"/", "a">>, <<"/", "b">>}
\* content-type header and what the body stream holds: a JSON text, a
\* multipart form, or bytes that decode as neither
Bodies == {<<"", "garbage">>,
           <<"application/json", "json">>, <<"application/json", "garbage">>,
           <<"multipart/form-data", "form">>, <<"multipart/form-data", "garbage">>}
GroupMiddleware == {"auth"}
\* sub-paths given to base()/group() and to a proxy's get()/post(), and
\* the middleware given to a proxy's use()
GroupSubs == {<<"g">>, <<"/">>}
ProxyPaths == {<<"/", "x">>, <<>>}
ProxyMiddleware == {"log", "tag"}

-----------------------------------------------------------------------------
(* JavaScript values *)

UNDEF == [t |-> "undefined"]
NULL == [t |-> "null"]
Str(s) == [t |-> "string", v |-> s]
Num(n) == [t |-> "number", v |-> n]
Bool(b) == [t |-> "boolean", v |-> b]
Arr(s) == [t |-> "array", v |-> s]
Obj(f) == [t |-> "object", v |-> f]
File(name) == [t |-> "file", v |-> name]
FormDataOf(entries) == [t |-> "formdata", v |-> entries]
Error(m) == [t |-> "error", message |-> m]
EmptyObj == Obj([k \in {} |-> UNDEF])

Return(v) == [kind |-> "return", v |-> v]
Throw(e) == [kind |-> "throw", v |-> e]
None == [kind |-> "none"]

IsResponse(v) == v.t = "response"
Has(o, k) == o.t = "object" /\ k \in DOMAIN o.v
\* o.k for an object o: undefined when the key is absent
Prop(o, k) == IF Has(o, k) THEN o.v[k] ELSE UNDEF
\* a ?? b
Coalesce(a, b) == IF a.t \in {"undefined", "null"} THEN b ELSE a
\* mutant: the first mapping wins on a key both have
SpreadKeepsFirst(a, b) ==
  [k \in (DOMAIN a) \cup (DOMAIN b) |-> IF k \in DOMAIN a THEN a[k] ELSE b[k]]
\* { ...a, ...b } on plain mappings
Spread(a, b) ==
  [k \in (DOMAIN a) \cup (DOMAIN b) |-> IF k \in DOMAIN b THEN b[k] ELSE a[k]]

startsWithSlash(path) == Len(path) > 0 /\ path[1] = "/"

-----------------------------------------------------------------------------
(* The external collaborators: schema validator, JSON encoder, Response *)

\* what a schema reports for a value it rejects
ZodIssues(schema) ==
  Arr(<<Obj([path |-> Str(schema), message |-> Str("Required")])>>)
\* the normalized output of a schema for a value it accepts
SchemaOut(schema, value) == [t |-> "parsed", schema |-> schema, of |-> value]
\* mutant: the schema lets every value through as it is
safeParsePassesThrough(schema, value, ok) == [success |-> TRUE, data |-> value]
\* schema.safeParse(value); ok is the validator's verdict
safeParse(schema, value, ok) ==
  IF ok THEN [success |-> TRUE, data |-> SchemaOut(schema, value)]
        ELSE [success |-> FALSE, issues |-> ZodIssues(schema)]

\* JSON.stringify: an undefined property is dropped, an undefined array
\* element becomes null, an object without own enumerable properties is {}
RECURSIVE ToJSON(_)
ToJSON(v) ==
  CASE v.t = "array" ->
         Arr([i \in DOMAIN v.v |->
                IF v.v[i].t = "undefined" THEN NULL ELSE ToJSON(v.v[i])])
    [] v.t = "object" ->
         Obj([k \in {j \in DOMAIN v.v : v.v[j].t # "undefined"} |-> ToJSON(v.v[k])])
    [] v.t \in {"file", "formdata"} -> EmptyObj
    [] OTHER -> v
\* JSON.stringify(v, null, 2): undefined for undefined, a text otherwise
JSONStringify(v) ==
  IF v.t = "undefined" THEN UNDEF ELSE [t |-> "text", json |-> ToJSON(v)]

\* new Response(body, {status, headers}): a RangeError unless 200 <= status <= 599
NewResponse(body, status, headers) ==
  IF status.t = "number" /\ status.v >= 200 /\ status.v <= 599
    THEN Return([t |-> "response", status |-> status.v, headers |-> headers,
                 body |-> IF body.t = "undefined" THEN NULL ELSE body])
    ELSE Throw(Error(Str("RangeError")))

-----------------------------------------------------------------------------
(* Helpers of src/supakit.ts *)

corsHeaders ==
  [k \in {"Access-Control-Allow-Origin", "Access-Control-Allow-Headers",
          "Access-Control-Allow-Methods"} |->
     CASE k = "Access-Control-Allow-Origin" -> "*"
       [] k = "Access-Control-Allow-Headers" ->
            "authorization, x-client-info, apikey, content-type"
       [] OTHER -> "GET, POST, PUT, DELETE, OPTIONS"]

ContentTypeJson == [k \in {"Content-Type"} |-> "application/json"]

\* mutant: the error envelope is sent without the CORS headers
errorResponseNoCors(message, status, issues) ==
  LET errorBody == [k \in {"success", "error"} |->
                      IF k = "success" THEN Bool(FALSE) ELSE message]
      withIssues == IF issues.t # "undefined"
                      THEN Spread(errorBody, [k \in {"issues"} |-> issues])
                      ELSE errorBody
  IN  NewResponse(JSONStringify(Obj(withIssues)), Num(status), ContentTypeJson).v

\* mutant: the envelope always has an issues key
errorResponseAlwaysIssues(message, status, issues) ==
  LET errorBody == [k \in {"success", "error", "issues"} |->
                      CASE k = "success" -> Bool(FALSE)
                        [] k = "error" -> message
                        [] OTHER -> IF issues.t # "undefined" THEN issues ELSE Arr(<<>>)]
  IN  NewResponse(JSONStringify(Obj(errorBody)), Num(status),
                  Spread(corsHeaders, ContentTypeJson)).v

errorResponse(message, status, issues) ==
  LET errorBody == [k \in {"success", "error"} |->
                      IF k = "success" THEN Bool(FALSE) ELSE message]
      withIssues == IF issues.t # "undefined"
                      THEN Spread(errorBody, [k \in {"issues"} |-> issues])
                      ELSE errorBody
  IN  NewResponse(JSONStringify(Obj(withIssues)), Num(status),
                  Spread(corsHeaders, ContentTypeJson)).v

\* mutant: the preflight check is missing
handleCorsNever(r) == UNDEF

handleCors(r) ==
  IF r.method = "OPTIONS"
    THEN NewResponse(NULL, Num(204), corsHeaders).v
    ELSE UNDEF

RECURSIVE replaceUndefinedWithEmpty(_)
replaceUndefinedWithEmpty(obj) ==
  CASE obj.t = "array" ->
         Arr([i \in DOMAIN obj.v |-> replaceUndefinedWithEmpty(obj.v[i])])
    [] obj.t = "object" ->
         Obj([k \in DOMAIN obj.v |->
                IF obj.v[k].t = "undefined" THEN Str("")
                ELSE replaceUndefinedWithEmpty(obj.v[k])])
    [] obj.t \in {"file", "formdata"} -> EmptyObj
    [] OTHER -> obj

-----------------------------------------------------------------------------
(* Registration: class Supakit *)

\* constructor(basePath): the normalized basePath of an instance
SupakitBasePath(basePath) ==
  IF startsWithSlash(basePath) THEN basePath
  ELSE IF Len(basePath) > 0 THEN <<"/">> \o basePath ELSE <<>>

\* the root instance is built by new Supakit()
rootBasePath == SupakitBasePath(<<>>)

\* getFullPath(path) of an instance whose basePath is base
getFullPath(base, path) ==
  IF path = <<>> \/ path = <<"/">> THEN base
  ELSE base \o (IF startsWithSlash(path) THEN path ELSE <<"/">> \o path)

\* base(subPath) on the root: the closure of the proxy it returns
baseProxy(subPath, rootMiddlewares) ==
  [basePath |-> getFullPath(rootBasePath, subPath), middlewares |-> rootMiddlewares]

\* mutant: a nested group starts without its parent's middleware
groupProxyForgets(proxy, sub) ==
  [basePath |-> proxy.basePath \o (IF startsWithSlash(sub) THEN sub ELSE <<"/">> \o sub),
   middlewares |-> <<>>]

\* proxy.group(sub): the closure of the proxy _makeProxy returns
groupProxy(proxy, sub) ==
  [basePath |-> proxy.basePath \o (IF startsWithSlash(sub) THEN sub ELSE <<"/">> \o sub),
   middlewares |-> proxy.middlewares]

\* the route definition _addWithProxy pushes on the root's registry
addWithProxy(method, basePath, path, opts, mws) ==
  LET fullPath == basePath \o (IF startsWithSlash(path) THEN path ELSE <<"/">> \o path)
  IN  [path |-> fullPath,
       methods |-> <<method>>,
       querySchema |-> opts.querySchema,
       headersSchema |-> opts.headersSchema,
       bodySchema |-> opts.bodySchema,
       responseSchema |-> opts.responseSchema,
       middlewares |-> opts.middlewares \o mws]

\* the options a route is registered with: which schemas it declares and
\* its own middleware (a bare handler function declares nothing)
BareHandler ==
  [querySchema |-> FALSE, headersSchema |-> FALSE, bodySchema |-> FALSE,
   responseSchema |-> FALSE, middlewares |-> <<>>]
CheckedOpts ==
  [querySchema |-> TRUE, headersSchema |-> TRUE, bodySchema |-> TRUE,
   responseSchema |-> TRUE, middlewares |-> <<"own">>]
RouteOpts == {BareHandler, CheckedOpts}
\* options that declare a response schema only
ResponseChecked ==
  [querySchema |-> FALSE, headersSchema |-> FALSE, bodySchema |-> FALSE,
   responseSchema |-> TRUE, middlewares |-> <<>>]

-----------------------------------------------------------------------------
(* Route find: Supakit.serve *)

Includes(seq, x) == \E i \in DOMAIN seq : seq[i] = x

\* mutant: the method is not looked at
RouteMatchesAnyMethod(r, method, pathname) == r.path = pathname

\* the predicate given to routes.find
RouteMatches(r, method, pathname) ==
  IF r.path # pathname THEN FALSE
  ELSE IF ~Includes(r.methods, method) THEN FALSE
  ELSE TRUE

\* mutant: the last matching route wins
findLastRoute(rs, method, pathname) ==
  IF \E i \in DOMAIN rs : RouteMatches(rs[i], method, pathname)
    THEN CHOOSE i \in DOMAIN rs :
           /\ RouteMatches(rs[i], method, pathname)
           /\ \A j \in (i + 1)..Len(rs) : ~RouteMatches(rs[j], method, pathname)
    ELSE 0

\* routes.find(...): index of the first matching route, 0 for undefined
findRoute(rs, method, pathname) ==
  IF \E i \in DOMAIN rs : RouteMatches(rs[i], method, pathname)
    THEN CHOOSE i \in DOMAIN rs :
           /\ RouteMatches(rs[i], method, pathname)
           /\ \A j \in 1..(i - 1) : ~RouteMatches(rs[j], method, pathname)
    ELSE 0

-----------------------------------------------------------------------------
(* Extraction: parseFormData, parseAndValidate*, validateRequest *)

includesJson(contentType) == contentType = "application/json"
includesMultipart(contentType) == contentType = "multipart/form-data"

\* what the request carries
QueryObj == Obj([name |-> Str("x")])
HeadersObj(r) ==
  IF r.contentType = "" THEN EmptyObj
  ELSE Obj([k \in {"content-type"} |-> Str(r.contentType)])
JsonPayload == Obj([name |-> Str("x")])
FormPayload == FormDataOf(<< <<"file", File("a.png")>>, <<"name", Str("x")>> >>)

ValidationError(type, issues) == [t |-> "validation", type |-> type, issues |-> issues]

\* req.json() and req.formData(): a consumed stream rejects, an unconsumed
\* one yields the decoded payload when it decodes and rejects otherwise
reqJson(r, used) ==
  IF ~used /\ r.payload = "json" THEN Return(JsonPayload)
  ELSE Throw(Error(Str("SyntaxError")))
reqFormData(r, used) ==
  IF ~used /\ r.payload = "form" THEN Return(FormPayload)
  ELSE Throw(Error(Str("TypeError")))

\* parseFormData(req): the up-front multipart parse
parseFormData(r, used) ==
  IF r.method \in {"POST", "PUT"} /\ includesMultipart(r.contentType)
    THEN LET rd == reqFormData(r, used)
         IN  [formData |-> IF rd.kind = "return" THEN rd.v ELSE UNDEF, reads |-> 1]
    ELSE [formData |-> UNDEF, reads |-> 0]

parseAndValidateQuery(r, schema, ok) ==
  IF ~schema THEN Return(UNDEF)
  ELSE LET res == safeParse("query", QueryObj, ok)
       IN  IF ~res.success THEN Throw(ValidationError("query", res.issues))
           ELSE Return(res.data)

parseAndValidateHeaders(r, schema, ok) ==
  IF ~schema THEN Return(UNDEF)
  ELSE LET res == safeParse("headers", HeadersObj(r), ok)
       IN  IF ~res.success THEN Throw(ValidationError("headers", res.issues))
           ELSE Return(res.data)

\* mutant: the files of the form are left out of bodyData
EntriesObjDropsFiles(fd) ==
  Obj([k \in {fd.v[i][1] : i \in {j \in DOMAIN fd.v : fd.v[j][2].t # "file"}} |->
         fd.v[CHOOSE i \in DOMAIN fd.v :
                fd.v[i][1] = k /\ \A j \in DOMAIN fd.v : fd.v[j][1] = k => j <= i][2]])

\* bodyData built from the entries of a FormData
EntriesObj(fd) ==
  Obj([k \in {fd.v[i][1] : i \in DOMAIN fd.v} |->
         fd.v[CHOOSE i \in DOMAIN fd.v :
                fd.v[i][1] = k /\ \A j \in DOMAIN fd.v : fd.v[j][1] = k => j <= i][2]])

\* parseAndValidateBody(req, schema, formData): c is its completion, reads
\* the number of stream reads it issued, parsed whether the schema was run
parseAndValidateBody(r, schema, fd, used, ok) ==
  IF ~schema THEN [c |-> Return([body |-> UNDEF, formData |-> fd]), reads |-> 0, parsed |-> FALSE]
  ELSE
    LET isJson == includesJson(r.contentType)
        isMulti == ~isJson /\ includesMultipart(r.contentType)
        needForm == isMulti /\ fd.t = "undefined"
        rd == IF isJson THEN reqJson(r, used)
              ELSE IF needForm THEN reqFormData(r, used)
              ELSE Return(fd)
        reads == IF isJson \/ needForm THEN 1 ELSE 0
        usedFormData == IF isMulti /\ rd.kind = "return" THEN rd.v ELSE fd
        bodyData == IF isJson THEN rd.v
                    ELSE IF isMulti THEN EntriesObj(usedFormData)
                    ELSE UNDEF
        res == safeParse("body", bodyData, ok)
    IN  IF isJson /\ rd.kind = "throw"
          THEN [c |-> Throw(ValidationError("body",
                        Arr(<<Obj([message |-> Str("Malformed JSON")])>>))),
                reads |-> reads, parsed |-> FALSE]
        ELSE IF isMulti /\ rd.kind = "throw"
          THEN [c |-> Throw(ValidationError("body",
                        Arr(<<Obj([message |-> rd.v.message])>>))),
                reads |-> reads, parsed |-> FALSE]
        ELSE IF ~res.success
          THEN [c |-> Throw(ValidationError("body", res.issues)),
                reads |-> reads, parsed |-> TRUE]
        ELSE [c |-> Return([body |-> res.data, formData |-> usedFormData]),
              reads |-> reads, parsed |-> TRUE]

\* mutant: the issue list is not passed on to the error envelope
validationResponseDropsIssues(e) ==
  CASE e.type = "query" -> errorResponse(Str("Invalid query"), 400, UNDEF)
    [] e.type = "headers" -> errorResponse(Str("Invalid headers"), 400, UNDEF)
    [] e.type = "body" -> errorResponse(Str("Invalid body"), 400, UNDEF)

\* the catch of the terminal action: a typed validation error becomes a
\* 400 response returned as the terminal action's value
validationResponse(e) ==
  CASE e.type = "query" -> errorResponse(Str("Invalid query"), 400, e.issues)
    [] e.type = "headers" -> errorResponse(Str("Invalid headers"), 400, e.issues)
    [] e.type = "body" -> errorResponse(Str("Invalid body"), 400, e.issues)

-----------------------------------------------------------------------------
(* Normalization and the top-level catch: Supakit.serve *)

\* the string-valued mapping spread from a handler's headers value
headersOf(h) == IF h.t = "object" THEN [k \in DOMAIN h.v |-> h.v[k].v] ELSE <<>>

\* mutant: the shape of the result is not inspected, the whole result is
\* the body and the status is 200
normalizeValueUnshaped(handlerResult, rt, rsOk) ==
  NewResponse(JSONStringify(replaceUndefinedWithEmpty(handlerResult)), Num(200),
              Spread(ContentTypeJson, corsHeaders))

\* lines 855-882: from a result that is no Response to the Response (or a
\* throw); rsOk is the response schema's verdict
normalizeValue(handlerResult, rt, rsOk) ==
    LET safeResult == replaceUndefinedWithEmpty(handlerResult)
        defaults == Spread(ContentTypeJson, corsHeaders)
        shaped == Has(safeResult, "status") \/ Has(safeResult, "body")
                    \/ Has(safeResult, "headers")
        status == IF shaped THEN Coalesce(Prop(safeResult, "status"), Num(200))
                  ELSE Num(200)
        resHeaders == IF shaped
                        THEN Spread(defaults,
                               headersOf(Coalesce(Prop(safeResult, "headers"), EmptyObj)))
                        ELSE defaults
        resBody == IF shaped
                     THEN IF Has(safeResult, "body") THEN Prop(safeResult, "body")
                          ELSE Coalesce(Prop(safeResult, "data"), Prop(safeResult, "body"))
                     ELSE safeResult
        validate == rt.responseSchema /\ resBody.t # "undefined"
        res == safeParse("response", resBody, rsOk)
        outBody == IF validate THEN res.data ELSE resBody
    IN  IF validate /\ ~res.success
          THEN Return(errorResponse(Str("Invalid response data"), 500, res.issues))
          ELSE NewResponse(IF outBody.t = "string" THEN outBody
                           ELSE JSONStringify(outBody),
                           status, resHeaders)

\* mutant: the CORS headers are merged into a pre-built Response
normalizeMergesCors(handlerResult, rt, rsOk) ==
  IF IsResponse(handlerResult)
    THEN Return([handlerResult EXCEPT !.headers = Spread(corsHeaders, @)])
    ELSE normalizeValue(handlerResult, rt, rsOk)

\* lines 853-882: the chain's result becomes the Response (or a throw)
normalize(handlerResult, rt, rsOk) ==
  IF IsResponse(handlerResult) THEN Return(handlerResult)
  ELSE normalizeValue(handlerResult, rt, rsOk)

\* mutant: the message of the exception is not reported
catchAllGeneric(c) ==
  IF c.kind = "throw"
    THEN errorResponse(Str("Internal server error"), 500, UNDEF)
    ELSE c.v

\* catch (err): errorResponse(err?.message || "Internal server error", 500)
catchAll(c) ==
  IF c.kind = "throw"
    THEN LET m == IF "message" \in DOMAIN c.v THEN c.v.message ELSE UNDEF
         IN  errorResponse(IF m.t = "undefined" \/ m = Str("")
                             THEN Str("Internal server error") ELSE m,
                           500, UNDEF)
    ELSE c.v

-----------------------------------------------------------------------------
(* What user code may do *)

\* the 401 of the authorization middleware, as a pre-built Response and as
\* a plain value
UnauthorizedResponse ==
  [t |-> "response", status |-> 401, headers |-> <<>>,
   body |-> JSONStringify(Obj([message |-> Str("Unauthorized")]))]
UnauthorizedValue ==
  Obj([status |-> Num(401), body |-> Obj([message |-> Str("Unauthorized")])])
MiddlewareValues == {UnauthorizedResponse, UnauthorizedValue}

FileResponse ==
  [t |-> "response", status |-> 200,
   headers |-> [k \in {"Content-Type"} |-> "application/octet-stream"],
   body |-> Str("bytes")]
HelloValue == Obj([message |-> Str("Hello, world!")])
CreatedValue ==
  Obj([status |-> Num(201), headers |-> Obj([k \in {"X-Id"} |-> Str("7")]),
       data |-> Obj([ok |-> Bool(TRUE)])])
HandlerValues == {FileResponse, HelloValue, CreatedValue}

\* what a middleware or a handler may throw: an Error, a value without message
Boom == Error(Str("boom"))
ThrownValues == {Boom, Error(UNDEF)}

\* further handler results: undefined at the top level, in a mapping, in an
\* array and deeper; a string; shaped results with and without body, data,
\* status and headers
ScrubValue == Obj([a |-> UNDEF, b |-> Arr(<<Num(1), UNDEF, Num(3)>>)])
NestedValue == Obj([a |-> Obj([c |-> UNDEF]), b |-> Arr(<<Obj([d |-> UNDEF])>>)])
BodyAndData == Obj([body |-> Obj([x |-> Num(1)]), data |-> Obj([y |-> Num(2)])])
RestOnly == Obj([status |-> Num(202), message |-> Str("queued")])
HeadersOnly == Obj([headers |-> Obj([k \in {"X-Id"} |-> Str("7")]), message |-> Str("queued")])
OverrideValue ==
  Obj([status |-> Num(200),
       headers |-> Obj([k \in {"Content-Type", "X-Id"} |->
                          IF k = "X-Id" THEN Str("7") ELSE Str("text/plain")]),
       body |-> Str("hello")])
OverrideCors ==
  Obj([status |-> Num(203),
       headers |-> Obj([k \in {"Access-Control-Allow-Origin"} |-> Str("https://a.example")]),
       data |-> Obj([ok |-> Bool(TRUE)])])
UndefinedBody == Obj([status |-> Num(200), body |-> UNDEF])
UndefinedStatus == Obj([status |-> UNDEF, body |-> Obj([ok |-> Bool(TRUE)])])
NullBody == Obj([body |-> NULL])
NormValues ==
  HandlerValues \cup
  {UNDEF, Str("pong"), Arr(<<UNDEF, Str("x")>>), ScrubValue, NestedValue,
   BodyAndData, RestOnly, HeadersOnly, OverrideValue, OverrideCors,
   UndefinedBody, UndefinedStatus, NullBody}
NormOutcomes ==
  {Return(v) : v \in NormValues} \cup {Throw(e) : e \in ThrownValues \cup {Error(Str(""))}}

\* how a handler completes
HandlerOutcomes == {Return(v) : v \in HandlerValues} \cup {Throw(e) : e \in ThrownValues}
\* how a middleware completes after its next() has settled, when it does
\* not hand on the completion of next()
ReplaceOutcomes == {Return(UnauthorizedValue), Throw(Boom)}

-----------------------------------------------------------------------------
(* State machine *)

NoReq == [method |-> "", pathname |-> <<>>, contentType |-> "", payload |-> ""]
\* the class-based dispatcher takes no options
NoOptions == [t |-> "undefined"]

\* one invocation of the callback at a time, none suspended
NoParked == [id |-> 0]

\* no request is in flight
RequestIdle ==
  /\ pc = "idle"
  /\ req = NoReq
  /\ route = 0
  /\ idx = -1
  /\ depth = 0
  /\ shortAt = -1
  /\ replaced = FALSE
  /\ result = None
  /\ response = None
  /\ bodyReads = 0
  /\ formData = UNDEF
  /\ validatedQuery = UNDEF
  /\ validatedHeaders = UNDEF
  /\ validatedBody = UNDEF
  /\ ctx = None
  /\ handlerCalls = 0
  /\ ran = <<>>
  /\ steps = <<>>
  /\ failed = ""
  /\ terminal = None

Init ==
  /\ routes = <<>>
  /\ middlewares = <<>>
  /\ proxies = <<>>
  /\ regLog = <<>>
  /\ serving = FALSE
  /\ options = NoOptions
  /\ parked = NoParked
  /\ pc = "idle"
  /\ req = NoReq
  /\ route = 0
  /\ idx = -1
  /\ depth = 0
  /\ shortAt = -1
  /\ replaced = FALSE
  /\ result = None
  /\ response = None
  /\ bodyReads = 0
  /\ formData = UNDEF
  /\ validatedQuery = UNDEF
  /\ validatedHeaders = UNDEF
  /\ validatedBody = UNDEF
  /\ ctx = None
  /\ handlerCalls = 0
  /\ ran = <<>>
  /\ steps = <<>>
  /\ failed = ""
  /\ terminal = None

\* the matched route and its chain
Route == routes[route]
Chain == Route.middlewares

\* what is remembered of a registration on the root instance
\* (via: the proxy called, 0 for the root; uses: how many use() calls the
\* root and each proxy from the outermost to via had received by then)
RootCall(path, opts, rootMiddlewares) ==
  [via |-> 0, path |-> path, own |-> opts.middlewares,
   uses |-> <<Len(rootMiddlewares)>>]

\* use(mw) on the root instance (the registration phase ends once the
\* registry holds MaxRoutes routes)
Use(mw) ==
  /\ ~serving
  /\ Len(routes) < MaxRoutes
  /\ ~Includes(middlewares, mw)
  /\ middlewares' = Append(middlewares, mw)
  /\ UNCHANGED <<routes, proxies, regLog, serving, options, parked, pc>>
  /\ UNCHANGED reqVars

\* get/post(path, opts) on the root instance
AddRoute(method, path, opts) ==
  /\ ~serving
  /\ Len(routes) < MaxRoutes
  /\ routes' = Append(routes, addWithProxy(method, rootBasePath, path, opts, middlewares))
  /\ regLog' = Append(regLog, RootCall(path, opts, middlewares))
  /\ UNCHANGED <<middlewares, proxies, serving, options, parked, pc>>
  /\ UNCHANGED reqVars

Get(path, opts) == AddRoute("GET", path, opts)
Post(path, opts) == AddRoute("POST", path, opts)

\* serve(): the callback is handed to denoServe
Serve ==
  /\ ~serving
  /\ serving' = TRUE
  /\ UNCHANGED <<routes, middlewares, proxies, regLog, options, parked, pc>>
  /\ UNCHANGED reqVars

\* denoServe invokes the callback with a request
Receive(method, pathname, contentType, payload) ==
  /\ serving
  /\ pc = "idle"
  /\ req' = [method |-> method, pathname |-> pathname,
             contentType |-> contentType, payload |-> payload]
  /\ pc' = "cors"
  /\ UNCHANGED regVars
  /\ UNCHANGED <<route, idx, depth, shortAt, replaced, result, response,
                 bodyReads, formData, validatedQuery, validatedHeaders,
                 validatedBody, ctx, handlerCalls, ran, steps, failed,
                 terminal>>

\* lines 794-795
Preflight ==
  /\ pc = "cors"
  /\ LET corsResponse == handleCors(req)
     IN  IF corsResponse.t # "undefined"
           THEN response' = corsResponse /\ pc' = "done"
           ELSE response' = response /\ pc' = "find"
  /\ UNCHANGED regVars
  /\ UNCHANGED <<req, route, idx, depth, shortAt, replaced, result,
                 bodyReads, formData, validatedQuery, validatedHeaders,
                 validatedBody, ctx, handlerCalls, ran, steps, failed,
                 terminal>>

\* mutant: a request that no route answers is dropped without a response
RouteFindDrops ==
  /\ pc = "find"
  /\ LET found == findRoute(routes, req.method, req.pathname)
     IN  /\ route' = found
         /\ IF found = 0
              THEN /\ response' = response
                   /\ pc' = "idle"
                   /\ idx' = idx
              ELSE /\ response' = response
                   /\ pc' = "dispatch"
                   /\ idx' = 0
  /\ UNCHANGED regVars
  /\ UNCHANGED <<req, depth, shortAt, replaced, result, bodyReads, formData,
                 validatedQuery, validatedHeaders, validatedBody, ctx,
                 handlerCalls, ran, steps, failed, terminal>>

\* lines 797-809 and the call dispatch(0)
RouteFind ==
  /\ pc = "find"
  /\ LET found == findRoute(routes, req.method, req.pathname)
     IN  /\ route' = found
         /\ IF found = 0
              THEN /\ response' = errorResponse(Str("Not Found"), 404, UNDEF)
                   /\ pc' = "done"
                   /\ idx' = idx
              ELSE /\ response' = response
                   /\ pc' = "dispatch"
                   /\ idx' = 0
  /\ UNCHANGED regVars
  /\ UNCHANGED <<req, depth, shortAt, replaced, result, bodyReads, formData,
                 validatedQuery, validatedHeaders, validatedBody, ctx,
                 handlerCalls, ran, steps, failed, terminal>>

\* mutant: the continuation handed to middleware i is dispatch(i + 2)
MiddlewareNextSkips ==
  /\ pc = "dispatch"
  /\ idx < Len(Chain)
  /\ ran' = Append(ran, idx)
  /\ depth' = depth + 1
  /\ idx' = IF idx + 2 <= Len(Chain) THEN idx + 2 ELSE Len(Chain)
  /\ UNCHANGED regVars
  /\ UNCHANGED <<pc, req, route, shortAt, replaced, result, response,
                 bodyReads, formData, validatedQuery, validatedHeaders,
                 validatedBody, ctx, handlerCalls, steps, failed, terminal>>

\* dispatch(i), i < middlewares.length: middleware i runs and calls next(),
\* which is dispatch(i + 1); a middleware awaits the next() it calls, as in
\* `return await next()`
MiddlewareNext ==
  /\ pc = "dispatch"
  /\ idx < Len(Chain)
  /\ ran' = Append(ran, idx)
  /\ depth' = depth + 1
  /\ idx' = idx + 1
  /\ UNCHANGED regVars
  /\ UNCHANGED <<pc, req, route, shortAt, replaced, result, response,
                 bodyReads, formData, validatedQuery, validatedHeaders,
                 validatedBody, ctx, handlerCalls, steps, failed, terminal>>

\* mutant: the chain goes on after a middleware that did not call next()
ShortCircuitFallsThrough(v) ==
  /\ pc = "dispatch"
  /\ idx < Len(Chain)
  /\ ran' = Append(ran, idx)
  /\ shortAt' = idx
  /\ result' = Return(v)
  /\ idx' = idx + 1
  /\ pc' = "dispatch"
  /\ UNCHANGED regVars
  /\ UNCHANGED <<req, route, depth, replaced, response, bodyReads,
                 formData, validatedQuery, validatedHeaders, validatedBody,
                 ctx, handlerCalls, steps, failed, terminal>>

\* dispatch(i), i < middlewares.length: middleware i returns v without
\* calling next()
MiddlewareShortCircuit(v) ==
  /\ pc = "dispatch"
  /\ idx < Len(Chain)
  /\ ran' = Append(ran, idx)
  /\ shortAt' = idx
  /\ result' = Return(v)
  /\ pc' = "unwind"
  /\ UNCHANGED regVars
  /\ UNCHANGED <<req, route, idx, depth, replaced, response, bodyReads,
                 formData, validatedQuery, validatedHeaders, validatedBody,
                 ctx, handlerCalls, steps, failed, terminal>>

\* dispatch(i), i < middlewares.length: middleware i throws e without
\* calling next()
MiddlewareThrow(e) ==
  /\ pc = "dispatch"
  /\ idx < Len(Chain)
  /\ ran' = Append(ran, idx)
  /\ shortAt' = idx
  /\ result' = Throw(e)
  /\ pc' = "unwind"
  /\ UNCHANGED regVars
  /\ UNCHANGED <<req, route, idx, depth, replaced, response, bodyReads,
                 formData, validatedQuery, validatedHeaders, validatedBody,
                 ctx, handlerCalls, steps, failed, terminal>>

\* mutant: the up-front parse does not catch the rejection of
\* req.formData(), which leaves dispatch as an exception
ParseFormDataThrows ==
  /\ pc = "dispatch"
  /\ idx = Len(Chain)
  /\ LET p == parseFormData(req, bodyReads > 0)
         rejected == p.reads > 0 /\ p.formData = UNDEF
     IN  /\ formData' = p.formData
         /\ bodyReads' = bodyReads + p.reads
         /\ steps' = IF p.reads > 0 THEN Append(steps, "read") ELSE steps
         /\ terminal' = IF rejected THEN Throw(Error(Str("TypeError"))) ELSE terminal
         /\ result' = IF rejected THEN Throw(Error(Str("TypeError"))) ELSE result
         /\ pc' = IF rejected THEN "unwind" ELSE "query"
  /\ UNCHANGED regVars
  /\ UNCHANGED <<req, route, idx, depth, shortAt, replaced, response,
                 validatedQuery, validatedHeaders, validatedBody, ctx,
                 handlerCalls, ran, failed>>

\* line 824: let formData = await parseFormData(req)
ParseFormData ==
  /\ pc = "dispatch"
  /\ idx = Len(Chain)
  /\ LET p == parseFormData(req, bodyReads > 0)
     IN  /\ formData' = p.formData
         /\ bodyReads' = bodyReads + p.reads
         /\ steps' = IF p.reads > 0 THEN Append(steps, "read") ELSE steps
  /\ pc' = "query"
  /\ UNCHANGED regVars
  /\ UNCHANGED <<req, route, idx, depth, shortAt, replaced, result, response,
                 validatedQuery, validatedHeaders, validatedBody, ctx,
                 handlerCalls, ran, failed, terminal>>

\* mutant: a failed query validation does not stop the extraction
ValidateQueryGoesOn(ok) ==
  /\ pc = "query"
  /\ LET c == parseAndValidateQuery(req, Route.querySchema, ok)
     IN  /\ steps' = IF Route.querySchema THEN Append(steps, "query") ELSE steps
         /\ IF c.kind = "throw"
              THEN /\ terminal' = Return(validationResponse(c.v))
                   /\ result' = terminal'
                   /\ failed' = c.v.type
                   /\ pc' = "headers"
                   /\ validatedQuery' = validatedQuery
              ELSE /\ validatedQuery' = c.v
                   /\ pc' = "headers"
                   /\ UNCHANGED <<terminal, result, failed>>
  /\ UNCHANGED regVars
  /\ UNCHANGED <<req, route, idx, depth, shortAt, replaced, response,
                 bodyReads, formData, validatedHeaders, validatedBody, ctx,
                 handlerCalls, ran>>

\* validateRequest, query part (lines 997-1002), and its catch (line 837);
\* ok is the verdict of the query schema
ValidateQuery(ok) ==
  /\ pc = "query"
  /\ LET c == parseAndValidateQuery(req, Route.querySchema, ok)
     IN  /\ steps' = IF Route.querySchema THEN Append(steps, "query") ELSE steps
         /\ IF c.kind = "throw"
              THEN /\ terminal' = Return(validationResponse(c.v))
                   /\ result' = terminal'
                   /\ failed' = c.v.type
                   /\ pc' = "unwind"
                   /\ validatedQuery' = validatedQuery
              ELSE /\ validatedQuery' = c.v
                   /\ pc' = "headers"
                   /\ UNCHANGED <<terminal, result, failed>>
  /\ UNCHANGED regVars
  /\ UNCHANGED <<req, route, idx, depth, shortAt, replaced, response,
                 bodyReads, formData, validatedHeaders, validatedBody, ctx,
                 handlerCalls, ran>>

\* validateRequest, query part: the schema's safeParse itself throws e, which
\* is no {type, issues} and is rethrown at lines 1001 and 840
QuerySchemaThrows(e) ==
  /\ pc = "query"
  /\ Route.querySchema
  /\ steps' = Append(steps, "query")
  /\ terminal' = Throw(e)
  /\ result' = terminal'
  /\ pc' = "unwind"
  /\ UNCHANGED regVars
  /\ UNCHANGED <<req, route, idx, depth, shortAt, replaced, response,
                 bodyReads, formData, validatedQuery, validatedHeaders,
                 validatedBody, ctx, handlerCalls, ran, failed>>

\* validateRequest, headers part (lines 1003-1008), and its catch (line 838);
\* ok is the verdict of the headers schema
ValidateHeaders(ok) ==
  /\ pc = "headers"
  /\ LET c == parseAndValidateHeaders(req, Route.headersSchema, ok)
     IN  /\ steps' = IF Route.headersSchema THEN Append(steps, "headers") ELSE steps
         /\ IF c.kind = "throw"
              THEN /\ terminal' = Return(validationResponse(c.v))
                   /\ result' = terminal'
                   /\ failed' = c.v.type
                   /\ pc' = "unwind"
                   /\ validatedHeaders' = validatedHeaders
              ELSE /\ validatedHeaders' = c.v
                   /\ pc' = "body"
                   /\ UNCHANGED <<terminal, result, failed>>
  /\ UNCHANGED regVars
  /\ UNCHANGED <<req, route, idx, depth, shortAt, replaced, response,
                 bodyReads, formData, validatedQuery, validatedBody, ctx,
                 handlerCalls, ran>>

\* validateRequest, body part (lines 1009-1017), and its catch (line 839);
\* ok is the verdict of the body schema
ValidateBody(ok) ==
  /\ pc = "body"
  /\ LET b == parseAndValidateBody(req, Route.bodySchema, formData, bodyReads > 0, ok)
     IN  /\ bodyReads' = bodyReads + b.reads
         /\ steps' = steps \o (IF b.reads > 0 THEN <<"read">> ELSE <<>>)
                           \o (IF b.parsed THEN <<"body">> ELSE <<>>)
         /\ IF b.c.kind = "throw"
              THEN /\ terminal' = Return(validationResponse(b.c.v))
                   /\ result' = terminal'
                   /\ failed' = b.c.v.type
                   /\ pc' = "unwind"
                   /\ UNCHANGED <<validatedBody, formData>>
              ELSE /\ validatedBody' = b.c.v.body
                   /\ formData' = IF b.c.v.formData.t # "undefined"
                                    THEN b.c.v.formData ELSE formData
                   /\ pc' = "handler"
                   /\ UNCHANGED <<terminal, result, failed>>
  /\ UNCHANGED regVars
  /\ UNCHANGED <<req, route, idx, depth, shortAt, replaced, response,
                 validatedQuery, validatedHeaders, ctx, handlerCalls, ran>>

\* lines 842-851: the context is built and the handler is awaited; out is
\* how the handler completes
CallHandler(out) ==
  /\ pc = "handler"
  /\ ctx' = [formData |-> formData, validatedBody |-> validatedBody,
             validatedQuery |-> validatedQuery,
             validatedHeaders |-> validatedHeaders, params |-> EmptyObj]
  /\ handlerCalls' = handlerCalls + 1
  /\ terminal' = out
  /\ result' = out
  /\ pc' = "unwind"
  /\ UNCHANGED regVars
  /\ UNCHANGED <<req, route, idx, depth, shortAt, replaced, response,
                 bodyReads, formData, validatedQuery, validatedHeaders,
                 validatedBody, ran, steps, failed>>

\* mutant: the value a middleware returns is lost on its way up
MiddlewarePassLosesValue ==
  /\ pc = "unwind"
  /\ depth > 0
  /\ depth' = depth - 1
  /\ result' = Return(UNDEF)
  /\ UNCHANGED regVars
  /\ UNCHANGED <<pc, req, route, idx, shortAt, replaced, response,
                 bodyReads, formData, validatedQuery, validatedHeaders,
                 validatedBody, ctx, handlerCalls, ran, steps, failed,
                 terminal>>

\* lines 817-819: the next() of an awaiting middleware settles and the
\* middleware hands that completion on (return await next())
MiddlewarePass ==
  /\ pc = "unwind"
  /\ depth > 0
  /\ depth' = depth - 1
  /\ UNCHANGED regVars
  /\ UNCHANGED <<pc, req, route, idx, shortAt, replaced, result, response,
                 bodyReads, formData, validatedQuery, validatedHeaders,
                 validatedBody, ctx, handlerCalls, ran, steps, failed,
                 terminal>>

\* lines 817-819: the next() of an awaiting middleware settles and the
\* middleware completes with something else
MiddlewareReplace(out) ==
  /\ pc = "unwind"
  /\ depth > 0
  /\ out # result
  /\ depth' = depth - 1
  /\ result' = out
  /\ replaced' = TRUE
  /\ UNCHANGED regVars
  /\ UNCHANGED <<pc, req, route, idx, shortAt, response, bodyReads, formData,
                 validatedQuery, validatedHeaders, validatedBody, ctx,
                 handlerCalls, ran, steps, failed, terminal>>

\* mutant: the callback waits on after dispatch(0) has settled
RespondWaits(rsOk) ==
  /\ pc = "unwind"
  /\ depth = 0
  /\ UNCHANGED vars

\* lines 853-885: dispatch(0) has settled; its result is normalized, a throw
\* is caught, and the Response is returned to denoServe; rsOk is the
\* verdict of the response schema
Respond(rsOk) ==
  /\ pc = "unwind"
  /\ depth = 0
  /\ response' = catchAll(IF result.kind = "throw" THEN result
                          ELSE normalize(result.v, Route, rsOk))
  /\ pc' = "done"
  /\ UNCHANGED regVars
  /\ UNCHANGED <<req, route, idx, depth, shortAt, replaced, result,
                 bodyReads, formData, validatedQuery, validatedHeaders,
                 validatedBody, ctx, handlerCalls, ran, steps, failed,
                 terminal>>

\* the callback has returned: nothing of the request is kept
Finish ==
  /\ pc = "done"
  /\ pc' = "idle"
  /\ req' = NoReq
  /\ route' = 0
  /\ idx' = -1
  /\ depth' = 0
  /\ shortAt' = -1
  /\ replaced' = FALSE
  /\ result' = None
  /\ response' = None
  /\ bodyReads' = 0
  /\ formData' = UNDEF
  /\ validatedQuery' = UNDEF
  /\ validatedHeaders' = UNDEF
  /\ validatedBody' = UNDEF
  /\ ctx' = None
  /\ handlerCalls' = 0
  /\ ran' = <<>>
  /\ steps' = <<>>
  /\ failed' = ""
  /\ terminal' = None
  /\ UNCHANGED regVars

Next ==
  \/ \E mw \in GroupMiddleware : Use(mw)
  \/ \E path \in RegPaths, opts \in RouteOpts : Get(path, opts)
  \/ \E path \in RegPaths, opts \in RouteOpts : Post(path, opts)
  \/ Serve
  \/ \E m \in ReqMethods, p \in ReqPaths, b \in Bodies : Receive(m, p, b[1], b[2])
  \/ Preflight
  \/ RouteFind
  \/ MiddlewareNext
  \/ \E v \in MiddlewareValues : MiddlewareShortCircuit(v)
  \/ MiddlewareThrow(Boom)
  \/ ParseFormData
  \/ \E ok \in BOOLEAN : ValidateQuery(ok)
  \/ \E ok \in BOOLEAN : ValidateHeaders(ok)
  \/ \E ok \in BOOLEAN : ValidateBody(ok)
  \/ \E out \in HandlerOutcomes : CallHandler(out)
  \/ MiddlewarePass
  \/ \E out \in ReplaceOutcomes : MiddlewareReplace(out)
  \/ \E rsOk \in BOOLEAN : Respond(rsOk)
  \/ Finish

Spec == Init /\ [][Next]_vars

-----------------------------------------------------------------------------
(* Registration through groups *)

\* the proxies from the outermost enclosing one to p
RECURSIVE ChainOf(_, _)
ChainOf(ps, p) == IF p = 0 THEN <<>> ELSE Append(ChainOf(ps, ps[p].parent), p)

\* what is remembered of a registration on proxy p
ProxyCall(p, path, opts) ==
  LET chain == ChainOf(proxies, p)
  IN  [via |-> p, path |-> path, own |-> opts.middlewares,
       uses |-> <<Len(middlewares)>> \o [k \in 1..Len(chain) |-> Len(proxies[chain[k]].own)]]

\* base(subPath) / group(subPath) on the root instance
Base(subPath) ==
  /\ ~serving
  /\ LET c == baseProxy(subPath, middlewares)
     IN  proxies' = Append(proxies,
                      [basePath |-> c.basePath, middlewares |-> c.middlewares,
                       parent |-> 0, sub |-> subPath, own |-> <<>>,
                       seen |-> Len(middlewares)])
  /\ UNCHANGED <<routes, middlewares, regLog, serving, options, parked, pc>>
  /\ UNCHANGED reqVars

\* mutant: a registered route shares the middleware list of the proxy it
\* was registered through
ProxyUseShared(p, mw) ==
  /\ ~serving
  /\ \A q \in DOMAIN proxies : ~Includes(proxies[q].middlewares, mw)
  /\ proxies' = [proxies EXCEPT ![p].middlewares = Append(@, mw),
                                ![p].own = Append(@, mw)]
  /\ routes' = [i \in DOMAIN routes |->
                  IF regLog[i].via = p
                    THEN [routes[i] EXCEPT !.middlewares = Append(@, mw)]
                    ELSE routes[i]]
  /\ UNCHANGED <<middlewares, regLog, serving, options, parked, pc>>
  /\ UNCHANGED reqVars

\* mutant: a sub-group shares the middleware list of the group (or of the
\* root) it was made from
ProxyUseAliased(p, mw) ==
  /\ ~serving
  /\ \A q \in DOMAIN proxies : ~Includes(proxies[q].middlewares, mw)
  /\ proxies' = [q \in DOMAIN proxies |->
                   IF q = p
                     THEN [proxies[q] EXCEPT !.middlewares = Append(@, mw),
                                             !.own = Append(@, mw)]
                   ELSE IF q = proxies[p].parent
                     THEN [proxies[q] EXCEPT !.middlewares = Append(@, mw)]
                   ELSE proxies[q]]
  /\ middlewares' = IF proxies[p].parent = 0 THEN Append(middlewares, mw)
                    ELSE middlewares
  /\ UNCHANGED <<routes, regLog, serving, options, parked, pc>>
  /\ UNCHANGED reqVars

\* proxy.use(mw) (a middleware is given to one group)
ProxyUse(p, mw) ==
  /\ ~serving
  /\ \A q \in DOMAIN proxies : ~Includes(proxies[q].middlewares, mw)
  /\ proxies' = [proxies EXCEPT ![p].middlewares = Append(@, mw),
                                ![p].own = Append(@, mw)]
  /\ UNCHANGED <<routes, middlewares, regLog, serving, options, parked, pc>>
  /\ UNCHANGED reqVars

\* proxy.group(sub) / proxy.base(sub)
ProxyGroup(p, sub) ==
  /\ ~serving
  /\ LET c == groupProxy(proxies[p], sub)
     IN  proxies' = Append(proxies,
                      [basePath |-> c.basePath, middlewares |-> c.middlewares,
                       parent |-> p, sub |-> sub, own |-> <<>>,
                       seen |-> Len(proxies[p].own)])
  /\ UNCHANGED <<routes, middlewares, regLog, serving, options, parked, pc>>
  /\ UNCHANGED reqVars

\* proxy.get/post(path, opts), on the innermost group
ProxyAddRoute(method, p, path, opts) ==
  /\ ~serving
  /\ p = Len(proxies)
  /\ routes' = Append(routes, addWithProxy(method, proxies[p].basePath, path, opts,
                                           proxies[p].middlewares))
  /\ regLog' = Append(regLog, ProxyCall(p, path, opts))
  /\ UNCHANGED <<middlewares, proxies, serving, options, parked, pc>>
  /\ UNCHANGED reqVars

ProxyGet(p, path, opts) == ProxyAddRoute("GET", p, path, opts)
ProxyPost(p, path, opts) == ProxyAddRoute("POST", p, path, opts)

\* the programs considered make one group on the root, nest the others in
\* it, and register routes on the innermost one
RegNext ==
  \/ \E mw \in GroupMiddleware : Len(routes) < MaxGroupRoutes /\ Use(mw)
  \/ \E sub \in GroupSubs :
       Len(routes) < MaxGroupRoutes /\ proxies = <<>> /\ Base(sub)
  \/ \E p \in DOMAIN proxies, mw \in ProxyMiddleware :
       Len(routes) < MaxGroupRoutes /\ ProxyUse(p, mw)
  \/ \E p \in DOMAIN proxies, sub \in GroupSubs :
       /\ Len(routes) < MaxGroupRoutes
       /\ Len(proxies) < MaxGroups
       /\ p = Len(proxies)
       /\ ProxyGroup(p, sub)
  \/ \E p \in DOMAIN proxies, path \in ProxyPaths :
       Len(routes) < MaxGroupRoutes /\ ProxyGet(p, path, BareHandler)
  \/ \E p \in DOMAIN proxies, path \in ProxyPaths :
       Len(routes) < MaxGroupRoutes /\ ProxyPost(p, path, CheckedOpts)

RegSpec == Init /\ [][RegNext]_vars

\* Groups made from the root and from any group, in any order with the
\* use() calls on the root and on the groups (no route is registered)
GroupNext ==
  \/ \E mw \in GroupMiddleware : Use(mw)
  \/ \E sub \in GroupSubs : Len(proxies) < MaxGroups /\ Base(sub)
  \/ \E p \in DOMAIN proxies, mw \in ProxyMiddleware : ProxyUse(p, mw)
  \/ \E p \in DOMAIN proxies, sub \in GroupSubs :
       Len(proxies) < MaxGroups /\ ProxyGroup(p, sub)

GroupSpec == Init /\ [][GroupNext]_vars

\* Registration going on after a route exists: the program
\*   const g = main.base("g"); g.use(log); const h = g.group("g");
\*   h.post("/x", {querySchema, headersSchema, bodySchema, responseSchema,
\*   middlewares: [own], handler})
\* followed by any use() on the root and on the groups and by further
\* registrations on the root and on h
AppendInit ==
  LET g == baseProxy(<<"g">>, <<>>)
      gUsed == [g EXCEPT !.middlewares = Append(@, "log")]
      h == groupProxy(gUsed, <<"g">>)
  IN  /\ proxies = <<[basePath |-> gUsed.basePath, middlewares |-> gUsed.middlewares,
                       parent |-> 0, sub |-> <<"g">>, own |-> <<"log">>, seen |-> 0],
                      [basePath |-> h.basePath, middlewares |-> h.middlewares,
                       parent |-> 1, sub |-> <<"g">>, own |-> <<>>, seen |-> 1]>>
      /\ routes = <<addWithProxy("POST", h.basePath, <<"/", "x">>, CheckedOpts,
                                 h.middlewares)>>
      /\ regLog = <<[via |-> 2, path |-> <<"/", "x">>, own |-> CheckedOpts.middlewares,
                     uses |-> <<0, 1, 0>>]>>
      /\ middlewares = <<>>
      /\ serving = FALSE
      /\ options = NoOptions
      /\ parked = NoParked
      /\ RequestIdle

AppendNext ==
  \/ \E mw \in GroupMiddleware : Use(mw)
  \/ \E p \in DOMAIN proxies, mw \in ProxyMiddleware : ProxyUse(p, mw)
  \/ \E path \in RegPaths, opts \in RouteOpts : Get(path, opts)
  \/ \E path \in RegPaths, opts \in RouteOpts : Post(path, opts)
  \/ \E p \in DOMAIN proxies, path \in ProxyPaths :
       Len(routes) < MaxAppendRoutes /\ ProxyGet(p, path, BareHandler)
  \/ \E p \in DOMAIN proxies, path \in ProxyPaths :
       Len(routes) < MaxAppendRoutes /\ ProxyPost(p, path, CheckedOpts)

AppendSpec == AppendInit /\ [][AppendNext]_vars

\* Normalization of what a handler returns: the program
\*   main.post("/a", handler); main.post("/b", {responseSchema, handler});
\*   main.serve()
\* receiving POST requests
NormInit ==
  /\ routes = <<addWithProxy("POST", rootBasePath, <<"/", "a">>, BareHandler, <<>>),
                addWithProxy("POST", rootBasePath, <<"/", "b">>, ResponseChecked, <<>>)>>
  /\ middlewares = <<>>
  /\ proxies = <<>>
  /\ regLog = <<RootCall(<<"/", "a">>, BareHandler, <<>>),
                RootCall(<<"/", "b">>, ResponseChecked, <<>>)>>
  /\ serving = TRUE
  /\ options = NoOptions
  /\ parked = NoParked
  /\ pc = "idle"
  /\ req = NoReq
  /\ route = 0
  /\ idx = -1
  /\ depth = 0
  /\ shortAt = -1
  /\ replaced = FALSE
  /\ result = None
  /\ response = None
  /\ bodyReads = 0
  /\ formData = UNDEF
  /\ validatedQuery = UNDEF
  /\ validatedHeaders = UNDEF
  /\ validatedBody = UNDEF
  /\ ctx = None
  /\ handlerCalls = 0
  /\ ran = <<>>
  /\ steps = <<>>
  /\ failed = ""
  /\ terminal = None

NormBodies == {<<"", "garbage">>, <<"application/json", "json">>}

NormNext ==
  \/ \E p \in ReqPaths, b \in NormBodies : Receive("POST", p, b[1], b[2])
  \/ Preflight
  \/ RouteFind
  \/ ParseFormData
  \/ \E ok \in BOOLEAN : ValidateQuery(ok)
  \/ \E ok \in BOOLEAN : ValidateHeaders(ok)
  \/ \E ok \in BOOLEAN : ValidateBody(ok)
  \/ \E out \in NormOutcomes : CallHandler(out)
  \/ \E rsOk \in BOOLEAN : Respond(rsOk)
  \/ Finish

NormSpec == NormInit /\ [][NormNext]_vars

\* Failures of a request: the program
\*   main.use(auth); main.get("/a", {querySchema, headersSchema, bodySchema,
\*   responseSchema, middlewares: [own], handler}); main.serve()
\* receiving any of the requests, its schemas possibly throwing
ServeInit ==
  /\ routes = <<addWithProxy("GET", rootBasePath, <<"/", "a">>, CheckedOpts, <<"auth">>)>>
  /\ middlewares = <<"auth">>
  /\ proxies = <<>>
  /\ regLog = <<RootCall(<<"/", "a">>, CheckedOpts, <<"auth">>)>>
  /\ serving = TRUE
  /\ options = NoOptions
  /\ parked = NoParked
  /\ pc = "idle"
  /\ req = NoReq
  /\ route = 0
  /\ idx = -1
  /\ depth = 0
  /\ shortAt = -1
  /\ replaced = FALSE
  /\ result = None
  /\ response = None
  /\ bodyReads = 0
  /\ formData = UNDEF
  /\ validatedQuery = UNDEF
  /\ validatedHeaders = UNDEF
  /\ validatedBody = UNDEF
  /\ ctx = None
  /\ handlerCalls = 0
  /\ ran = <<>>
  /\ steps = <<>>
  /\ failed = ""
  /\ terminal = None

ServeNext ==
  \/ \E m \in ReqMethods, p \in ReqPaths, b \in Bodies : Receive(m, p, b[1], b[2])
  \/ Preflight
  \/ RouteFind
  \/ MiddlewareNext
  \/ \E v \in MiddlewareValues : MiddlewareShortCircuit(v)
  \/ \E e \in ThrownValues : MiddlewareThrow(e)
  \/ ParseFormData
  \/ \E ok \in BOOLEAN : ValidateQuery(ok)
  \/ \E e \in ThrownValues : QuerySchemaThrows(e)
  \/ \E ok \in BOOLEAN : ValidateHeaders(ok)
  \/ \E ok \in BOOLEAN : ValidateBody(ok)
  \/ \E out \in HandlerOutcomes : CallHandler(out)
  \/ MiddlewarePass
  \/ \E out \in ReplaceOutcomes : MiddlewareReplace(out)
  \/ \E rsOk \in BOOLEAN : Respond(rsOk)
  \/ Finish

ServeSpec == ServeInit /\ [][ServeNext]_vars

\* The pipeline of a request: the program
\*   main.get("/b", handler); main.use(auth);
\*   main.post("/a", {querySchema, headersSchema, bodySchema, responseSchema,
\*   middlewares: [own], handler}); main.serve()
\* receiving any of the requests
PipeInit ==
  /\ routes = <<addWithProxy("GET", rootBasePath, <<"/", "b">>, BareHandler, <<>>),
                addWithProxy("POST", rootBasePath, <<"/", "a">>, CheckedOpts, <<"auth">>)>>
  /\ middlewares = <<"auth">>
  /\ proxies = <<>>
  /\ regLog = <<RootCall(<<"/", "b">>, BareHandler, <<>>),
                RootCall(<<"/", "a">>, CheckedOpts, <<"auth">>)>>
  /\ serving = TRUE
  /\ options = NoOptions
  /\ parked = NoParked
  /\ RequestIdle

PipeSpec == PipeInit /\ [][ServeNext]_vars

\* the steps of the callback once denoServe has invoked it
CallbackStep ==
  \/ Preflight
  \/ RouteFind
  \/ MiddlewareNext
  \/ \E v \in MiddlewareValues : MiddlewareShortCircuit(v)
  \/ \E e \in ThrownValues : MiddlewareThrow(e)
  \/ ParseFormData
  \/ \E ok \in BOOLEAN : ValidateQuery(ok)
  \/ \E e \in ThrownValues : QuerySchemaThrows(e)
  \/ \E ok \in BOOLEAN : ValidateHeaders(ok)
  \/ \E ok \in BOOLEAN : ValidateBody(ok)
  \/ \E out \in HandlerOutcomes : CallHandler(out)
  \/ MiddlewarePass
  \/ \E out \in ReplaceOutcomes : MiddlewareReplace(out)
  \/ \E rsOk \in BOOLEAN : Respond(rsOk)

\* The same program, the callback running to completion: the runtime
\* resumes an async function whenever the promise it awaits has settled,
\* and the middleware, schemas and handlers it awaits do settle
PipeLive == PipeInit /\ [][ServeNext]_vars /\ WF_vars(CallbackStep)

\* the steps of the callback by what has to settle for them to happen:
\* user code (a middleware returns, throws or calls next(); the handler
\* returns or throws),
UserStep ==
  \/ MiddlewareNext
  \/ \E v \in MiddlewareValues : MiddlewareShortCircuit(v)
  \/ \E e \in ThrownValues : MiddlewareThrow(e)
  \/ \E out \in HandlerOutcomes : CallHandler(out)
  \/ MiddlewarePass
  \/ \E out \in ReplaceOutcomes : MiddlewareReplace(out)
\* a read of the body stream (req.formData() in parseFormData, req.json()
\* or req.formData() in parseAndValidateBody),
BodyReadStep ==
  \/ ParseFormData
  \/ \E ok \in BOOLEAN : ValidateBody(ok)
\* and the code of the dispatcher itself, which runs on once what it
\* awaited has settled
DispatcherStep ==
  \/ Preflight
  \/ RouteFind
  \/ \E ok \in BOOLEAN : ValidateQuery(ok)
  \/ \E e \in ThrownValues : QuerySchemaThrows(e)
  \/ \E ok \in BOOLEAN : ValidateHeaders(ok)
  \/ \E rsOk \in BOOLEAN : Respond(rsOk)

\* The same program where only the dispatcher's own code is known to run
\* on: user code and body reads may never settle
SettleSpec == PipeInit /\ [][ServeNext]_vars /\ WF_vars(DispatcherStep)

\* Multipart bodies: the program
\*   main.use(auth); main.post("/a", handler);
\*   main.put("/b", {querySchema, headersSchema, bodySchema, responseSchema,
\*   middlewares: [own], handler}); main.serve()
\* receiving POST and PUT requests with JSON and multipart bodies
FormInit ==
  /\ routes = <<addWithProxy("POST", rootBasePath, <<"/", "a">>, BareHandler, <<"auth">>),
                addWithProxy("PUT", rootBasePath, <<"/", "b">>, CheckedOpts, <<"auth">>)>>
  /\ middlewares = <<"auth">>
  /\ proxies = <<>>
  /\ regLog = <<RootCall(<<"/", "a">>, BareHandler, <<"auth">>),
                RootCall(<<"/", "b">>, CheckedOpts, <<"auth">>)>>
  /\ serving = TRUE
  /\ options = NoOptions
  /\ parked = NoParked
  /\ RequestIdle

FormMethods == {"POST", "PUT"}
FormBodies == {<<"application/json", "json">>,
               <<"multipart/form-data", "form">>, <<"multipart/form-data", "garbage">>}

FormNext ==
  \/ \E m \in FormMethods, p \in ReqPaths, b \in FormBodies : Receive(m, p, b[1], b[2])
  \/ CallbackStep
  \/ Finish

FormSpec == FormInit /\ [][FormNext]_vars

\* Two invocations of the callback in flight: denoServe invokes the callback
\* once per request, and every variable of the dispatcher (route,
\* middlewares, handler, idx, formData, validatedQuery, validatedHeaders,
\* validatedBody, ctx, handlerResult) is declared inside the callback, so
\* each invocation has its own; the registry is the one object they share.
\* The locals of the invocation that is running:
Locals ==
  [pc |-> pc, req |-> req, route |-> route, idx |-> idx, depth |-> depth,
   shortAt |-> shortAt, replaced |-> replaced, result |-> result,
   response |-> response, bodyReads |-> bodyReads, formData |-> formData,
   validatedQuery |-> validatedQuery, validatedHeaders |-> validatedHeaders,
   validatedBody |-> validatedBody, ctx |-> ctx, handlerCalls |-> handlerCalls,
   ran |-> ran, steps |-> steps, failed |-> failed, terminal |-> terminal]
\* the locals of an invocation that has not started
IdleLocals ==
  [pc |-> "idle", req |-> NoReq, route |-> 0, idx |-> -1, depth |-> 0,
   shortAt |-> -1, replaced |-> FALSE, result |-> None, response |-> None,
   bodyReads |-> 0, formData |-> UNDEF, validatedQuery |-> UNDEF,
   validatedHeaders |-> UNDEF, validatedBody |-> UNDEF, ctx |-> None,
   handlerCalls |-> 0, ran |-> <<>>, steps |-> <<>>, failed |-> "",
   terminal |-> None]
\* the invocation that is running (1 or 2)
Running == 3 - parked.id

\* mutant: formData is one variable of serve(), shared by the invocations
SwitchSharesFormData ==
  /\ serving
  /\ parked.id # 0
  /\ pc \notin {"cors", "find"}
  /\ parked' = [id |-> Running, locals |-> Locals]
  /\ pc' = parked.locals.pc
  /\ req' = parked.locals.req
  /\ route' = parked.locals.route
  /\ idx' = parked.locals.idx
  /\ depth' = parked.locals.depth
  /\ shortAt' = parked.locals.shortAt
  /\ replaced' = parked.locals.replaced
  /\ result' = parked.locals.result
  /\ response' = parked.locals.response
  /\ bodyReads' = parked.locals.bodyReads
  /\ formData' = formData
  /\ validatedQuery' = parked.locals.validatedQuery
  /\ validatedHeaders' = parked.locals.validatedHeaders
  /\ validatedBody' = parked.locals.validatedBody
  /\ ctx' = parked.locals.ctx
  /\ handlerCalls' = parked.locals.handlerCalls
  /\ ran' = parked.locals.ran
  /\ steps' = parked.locals.steps
  /\ failed' = parked.locals.failed
  /\ terminal' = parked.locals.terminal
  /\ UNCHANGED <<routes, middlewares, proxies, regLog, serving, options>>

\* the running invocation is suspended at an await (or has not started, or
\* has returned) and the runtime runs the other one, which finds its
\* locals as it left them; between the entry of the callback and the first
\* await (lines 793-813) the code runs without suspension
Switch ==
  /\ serving
  /\ parked.id # 0
  /\ pc \notin {"cors", "find"}
  /\ parked' = [id |-> Running, locals |-> Locals]
  /\ pc' = parked.locals.pc
  /\ req' = parked.locals.req
  /\ route' = parked.locals.route
  /\ idx' = parked.locals.idx
  /\ depth' = parked.locals.depth
  /\ shortAt' = parked.locals.shortAt
  /\ replaced' = parked.locals.replaced
  /\ result' = parked.locals.result
  /\ response' = parked.locals.response
  /\ bodyReads' = parked.locals.bodyReads
  /\ formData' = parked.locals.formData
  /\ validatedQuery' = parked.locals.validatedQuery
  /\ validatedHeaders' = parked.locals.validatedHeaders
  /\ validatedBody' = parked.locals.validatedBody
  /\ ctx' = parked.locals.ctx
  /\ handlerCalls' = parked.locals.handlerCalls
  /\ ran' = parked.locals.ran
  /\ steps' = parked.locals.steps
  /\ failed' = parked.locals.failed
  /\ terminal' = parked.locals.terminal
  /\ UNCHANGED <<routes, middlewares, proxies, regLog, serving, options>>

\* the requests the two invocations receive
DuoRequests ==
  {<<"GET", <<"/", "b">>, "", "garbage">>,
   <<"POST", <<"/", "a">>, "application/json", "json">>,
   <<"POST", <<"/", "a">>, "multipart/form-data", "form">>,
   <<"POST", <<"/", "b">>, "application/json", "json">>}

\* The program of PipeInit serving two requests at a time
DuoInit ==
  /\ routes = <<addWithProxy("GET", rootBasePath, <<"/", "b">>, BareHandler, <<>>),
                addWithProxy("POST", rootBasePath, <<"/", "a">>, CheckedOpts, <<"auth">>)>>
  /\ middlewares = <<"auth">>
  /\ proxies = <<>>
  /\ regLog = <<RootCall(<<"/", "b">>, BareHandler, <<>>),
                RootCall(<<"/", "a">>, CheckedOpts, <<"auth">>)>>
  /\ serving = TRUE
  /\ options = NoOptions
  /\ parked = [id |-> 2, locals |-> IdleLocals]
  /\ RequestIdle

DuoNext ==
  \/ \E r \in DuoRequests : Receive(r[1], r[2], r[3], r[4])
  \/ CallbackStep
  \/ Finish
  \/ Switch

DuoSpec == DuoInit /\ [][DuoNext]_vars

-----------------------------------------------------------------------------
(* The single-handler serve(handler, options) of src/serve.ts *)

\* errorResponse of src/serve.ts
serveErrorResponse(message, status, issues) ==
  LET errorBody == [k \in {"success", "error"} |->
                      IF k = "success" THEN Bool(FALSE) ELSE message]
      withIssues == IF issues.t # "undefined"
                      THEN Spread(errorBody, [k \in {"issues"} |-> issues])
                      ELSE errorBody
  IN  NewResponse(JSONStringify(Obj(withIssues)), Num(status),
                  Spread(corsHeaders, ContentTypeJson)).v

\* parseMultipartFormData(req): the string entries as fields, the File
\* entries as lists of files
parseMultipartFormData(r, used) ==
  LET rd == reqFormData(r, used)
  IN  IF rd.kind = "throw" THEN rd
      ELSE LET es == rd.v.v
               isFile(i) == es[i][2].t = "file"
               keys(files) == {es[i][1] : i \in {j \in DOMAIN es : isFile(j) = files}}
               lastField(k) == CHOOSE i \in DOMAIN es :
                                 /\ es[i][1] = k /\ ~isFile(i)
                                 /\ \A j \in DOMAIN es :
                                      (es[j][1] = k /\ ~isFile(j)) => j <= i
               filesOf(k) == SelectSeq(es, LAMBDA e : e[1] = k /\ e[2].t = "file")
           IN  Return([t |-> "multipart",
                       fields |-> Obj([k \in keys(FALSE) |-> es[lastField(k)][2]]),
                       files |-> Obj([k \in keys(TRUE) |->
                                        Arr([i \in DOMAIN filesOf(k) |-> filesOf(k)[i][2]])])])

\* the options serve() is called with: the allowed methods, the required
\* query parameters, and which schemas are declared
ServeMethods == {UNDEF, Arr(<<"POST">>), Arr(<<"GET", "POST">>)}
ServeRequired == {UNDEF, Arr(<<"name">>), Arr(<<"id">>)}
ServeSchemas ==
  {[querySchema |-> FALSE, headersSchema |-> FALSE, bodySchema |-> FALSE, responseSchema |-> FALSE],
   [querySchema |-> FALSE, headersSchema |-> FALSE, bodySchema |-> TRUE, responseSchema |-> FALSE],
   [querySchema |-> TRUE, headersSchema |-> TRUE, bodySchema |-> TRUE, responseSchema |-> TRUE]}
ServeOptions ==
  {[methods |-> m, requireParams |-> rp, querySchema |-> sc.querySchema,
    headersSchema |-> sc.headersSchema, bodySchema |-> sc.bodySchema,
    responseSchema |-> sc.responseSchema] :
     m \in ServeMethods, rp \in ServeRequired, sc \in ServeSchemas}

\* how the single handler completes
ServeOutcomes == {Return(HelloValue), Return(CreatedValue), Throw(Boom)}

\* mutant: every method is let through
methodAllowedAlways(opts, method) == TRUE

\* line 85 negated: options.methods is absent or includes the method
methodAllowed(opts, method) ==
  IF opts.methods.t = "undefined" THEN TRUE
  ELSE Includes(opts.methods.v, method)

\* lines 151-180: the Response (or a throw) made of the handler's result
serveNormalize(handlerResult, opts, rsOk) ==
  LET shaped == Has(handlerResult, "data") \/ Has(handlerResult, "status")
                  \/ Has(handlerResult, "headers")
      data == IF shaped THEN Prop(handlerResult, "data") ELSE handlerResult
      status == IF shaped THEN Coalesce(Prop(handlerResult, "status"), Num(200))
                ELSE Num(200)
      customHeaders == IF shaped
                         THEN headersOf(Coalesce(Prop(handlerResult, "headers"), EmptyObj))
                         ELSE <<>>
      validate == opts.responseSchema /\ data.t # "undefined"
      res == safeParse("response", data, rsOk)
      outData == IF validate THEN res.data ELSE data
  IN  IF validate /\ ~res.success
        THEN Return(serveErrorResponse(Str("Invalid response data"), 500, res.issues))
        ELSE NewResponse(JSONStringify(Obj([k \in {"success", "data"} |->
                                              IF k = "success" THEN Bool(TRUE) ELSE outData])),
                         status,
                         Spread(Spread(corsHeaders, customHeaders), ContentTypeJson))

\* lines 181-183
serveCatch(c) ==
  IF c.kind = "throw"
    THEN LET m == IF "message" \in DOMAIN c.v THEN c.v.message ELSE UNDEF
         IN  serveErrorResponse(IF m.t = "undefined" \/ m = Str("")
                                  THEN Str("Internal server error") ELSE m,
                                500, UNDEF)
    ELSE c.v

\* serve(handler, options) has been called with one of the options
SingleInit ==
  /\ routes = <<>>
  /\ middlewares = <<>>
  /\ proxies = <<>>
  /\ regLog = <<>>
  /\ serving = TRUE
  /\ options \in ServeOptions
  /\ parked = NoParked
  /\ RequestIdle

\* denoServe invokes the callback of line 77 with a request
SingleReceive(method, contentType, payload) ==
  /\ serving
  /\ pc = "idle"
  /\ req' = [method |-> method, pathname |-> <<"/">>,
             contentType |-> contentType, payload |-> payload]
  /\ pc' = "s_cors"
  /\ UNCHANGED regVars
  /\ UNCHANGED <<route, idx, depth, shortAt, replaced, result, response,
                 bodyReads, formData, validatedQuery, validatedHeaders,
                 validatedBody, ctx, handlerCalls, ran, steps, failed,
                 terminal>>

\* lines 80-82
SinglePreflight ==
  /\ pc = "s_cors"
  /\ IF req.method = "OPTIONS"
       THEN response' = NewResponse(NULL, Num(204), corsHeaders).v /\ pc' = "done"
       ELSE response' = response /\ pc' = "s_method"
  /\ UNCHANGED regVars
  /\ UNCHANGED <<req, route, idx, depth, shortAt, replaced, result,
                 bodyReads, formData, validatedQuery, validatedHeaders,
                 validatedBody, ctx, handlerCalls, ran, steps, failed,
                 terminal>>

\* lines 85-87
SingleMethodCheck ==
  /\ pc = "s_method"
  /\ IF ~methodAllowed(options, req.method)
       THEN /\ response' = serveErrorResponse(Str("Method Not Allowed"), 405, UNDEF)
            /\ pc' = "done"
       ELSE /\ response' = response
            /\ pc' = "s_query"
  /\ UNCHANGED regVars
  /\ UNCHANGED <<req, route, idx, depth, shortAt, replaced, result,
                 bodyReads, formData, validatedQuery, validatedHeaders,
                 validatedBody, ctx, handlerCalls, ran, steps, failed,
                 terminal>>

\* lines 90-106; ok is the verdict of the query schema
SingleQuery(ok) ==
  /\ pc = "s_query"
  /\ LET res == safeParse("query", QueryObj, ok)
         missing == options.requireParams.t # "undefined"
                      /\ \E i \in DOMAIN options.requireParams.v :
                           ~Has(QueryObj, options.requireParams.v[i])
         first == CHOOSE i \in DOMAIN options.requireParams.v :
                    /\ ~Has(QueryObj, options.requireParams.v[i])
                    /\ \A j \in 1..(i - 1) : Has(QueryObj, options.requireParams.v[j])
     IN  IF options.querySchema
           THEN /\ steps' = Append(steps, "query")
                /\ IF ~res.success
                     THEN /\ response' = serveErrorResponse(Str("Invalid query parameters"),
                                                            400, res.issues)
                          /\ failed' = "query"
                          /\ pc' = "done"
                          /\ validatedQuery' = validatedQuery
                     ELSE /\ validatedQuery' = res.data
                          /\ pc' = "s_headers"
                          /\ UNCHANGED <<response, failed>>
           ELSE /\ steps' = steps
                /\ IF missing
                     THEN /\ response' = serveErrorResponse(
                                 Str("Missing required query parameter: "
                                       \o options.requireParams.v[first]), 400, UNDEF)
                          /\ failed' = "query"
                          /\ pc' = "done"
                          /\ validatedQuery' = validatedQuery
                     ELSE /\ validatedQuery' = QueryObj
                          /\ pc' = "s_headers"
                          /\ UNCHANGED <<response, failed>>
  /\ UNCHANGED regVars
  /\ UNCHANGED <<req, route, idx, depth, shortAt, replaced, result,
                 bodyReads, formData, validatedHeaders, validatedBody, ctx,
                 handlerCalls, ran, terminal>>

\* lines 108-120; ok is the verdict of the headers schema
SingleHeaders(ok) ==
  /\ pc = "s_headers"
  /\ LET res == safeParse("headers", HeadersObj(req), ok)
     IN  IF options.headersSchema
           THEN /\ steps' = Append(steps, "headers")
                /\ IF ~res.success
                     THEN /\ response' = serveErrorResponse(Str("Invalid headers"),
                                                            400, res.issues)
                          /\ failed' = "headers"
                          /\ pc' = "done"
                          /\ validatedHeaders' = validatedHeaders
                     ELSE /\ validatedHeaders' = res.data
                          /\ pc' = "s_body"
                          /\ UNCHANGED <<response, failed>>
           ELSE /\ steps' = steps
                /\ validatedHeaders' = HeadersObj(req)
                /\ pc' = "s_body"
                /\ UNCHANGED <<response, failed>>
  /\ UNCHANGED regVars
  /\ UNCHANGED <<req, route, idx, depth, shortAt, replaced, result,
                 bodyReads, formData, validatedQuery, validatedBody, ctx,
                 handlerCalls, ran, terminal>>

\* lines 122-146; ok is the verdict of the body schema. A rejected
\* req.formData() is caught at line 181.
SingleBody(ok) ==
  /\ pc = "s_body"
  /\ IF includesMultipart(req.contentType)
       THEN LET parsed == parseMultipartFormData(req, bodyReads > 0)
            IN  /\ bodyReads' = bodyReads + 1
                /\ steps' = Append(steps, "read")
                /\ validatedBody' = validatedBody
                /\ IF parsed.kind = "throw"
                     THEN /\ response' = serveCatch(parsed)
                          /\ pc' = "done"
                          /\ UNCHANGED <<formData, failed>>
                     ELSE /\ formData' = parsed.v
                          /\ pc' = "s_handler"
                          /\ UNCHANGED <<response, failed>>
       ELSE IF options.bodySchema
         THEN LET rd == reqJson(req, bodyReads > 0)
                  res == safeParse("body", rd.v, ok)
              IN  /\ bodyReads' = bodyReads + 1
                  /\ formData' = formData
                  /\ IF rd.kind = "throw"
                       THEN /\ steps' = Append(steps, "read")
                            /\ response' = serveErrorResponse(
                                   Str("Invalid or missing JSON body"), 400, UNDEF)
                            /\ failed' = "body"
                            /\ pc' = "done"
                            /\ validatedBody' = validatedBody
                       ELSE /\ steps' = steps \o <<"read", "body">>
                            /\ IF ~res.success
                                 THEN /\ response' = serveErrorResponse(
                                             Str("Invalid request body"), 400, res.issues)
                                      /\ failed' = "body"
                                      /\ pc' = "done"
                                      /\ validatedBody' = validatedBody
                                 ELSE /\ validatedBody' = res.data
                                      /\ pc' = "s_handler"
                                      /\ UNCHANGED <<response, failed>>
         ELSE /\ pc' = "s_handler"
              /\ UNCHANGED <<bodyReads, steps, formData, validatedBody, response, failed>>
  /\ UNCHANGED regVars
  /\ UNCHANGED <<req, route, idx, depth, shortAt, replaced, result,
                 validatedQuery, validatedHeaders, ctx, handlerCalls, ran,
                 terminal>>

\* line 149: the handler is awaited; out is how it completes
SingleHandler(out) ==
  /\ pc = "s_handler"
  /\ ctx' = [params |-> validatedQuery, headers |-> validatedHeaders,
             body |-> validatedBody,
             files |-> IF formData.t = "undefined" THEN UNDEF ELSE formData.files,
             fields |-> IF formData.t = "undefined" THEN UNDEF ELSE formData.fields]
  /\ handlerCalls' = handlerCalls + 1
  /\ terminal' = out
  /\ result' = out
  /\ pc' = "s_respond"
  /\ UNCHANGED regVars
  /\ UNCHANGED <<req, route, idx, depth, shortAt, replaced, response,
                 bodyReads, formData, validatedQuery, validatedHeaders,
                 validatedBody, ran, steps, failed>>

\* lines 151-183; rsOk is the verdict of the response schema
SingleRespond(rsOk) ==
  /\ pc = "s_respond"
  /\ response' = serveCatch(IF result.kind = "throw" THEN result
                            ELSE serveNormalize(result.v, options, rsOk))
  /\ pc' = "done"
  /\ UNCHANGED regVars
  /\ UNCHANGED <<req, route, idx, depth, shortAt, replaced, result,
                 bodyReads, formData, validatedQuery, validatedHeaders,
                 validatedBody, ctx, handlerCalls, ran, steps, failed,
                 terminal>>

SingleNext ==
  \/ \E m \in ReqMethods, b \in Bodies : SingleReceive(m, b[1], b[2])
  \/ SinglePreflight
  \/ SingleMethodCheck
  \/ \E ok \in BOOLEAN : SingleQuery(ok)
  \/ \E ok \in BOOLEAN : SingleHeaders(ok)
  \/ \E ok \in BOOLEAN : SingleBody(ok)
  \/ \E out \in ServeOutcomes : SingleHandler(out)
  \/ \E rsOk \in BOOLEAN : SingleRespond(rsOk)
  \/ Finish

SingleSpec == SingleInit /\ [][SingleNext]_vars

-----------------------------------------------------------------------------
(* Properties *)

CorsKeys == {"Access-Control-Allow-Origin", "Access-Control-Allow-Headers",
             "Access-Control-Allow-Methods"}
HasCors(r) == CorsKeys \subseteq DOMAIN r.headers

\* the route at index i answers the request in flight
Agrees(i) ==
  /\ routes[i].path = req.pathname
  /\ \E k \in DOMAIN routes[i].methods : routes[i].methods[k] = req.method

\* the route find has been done for the request in flight
Matched == pc \in {"dispatch", "query", "headers", "body", "handler", "unwind"}
             \/ (pc = "done" /\ req.method # "OPTIONS")

\* the schema validations performed so far, in order
Validated == SelectSeq(steps, LAMBDA x : x # "read")
\* the segments whose schema the matched route declares, in pipeline order
Declared ==
  (IF Route.querySchema THEN <<"query">> ELSE <<>>)
    \o (IF Route.headersSchema THEN <<"headers">> ELSE <<>>)
    \o (IF Route.bodySchema THEN <<"body">> ELSE <<>>)
IsPrefix(a, b) == Len(a) <= Len(b) /\ \A i \in DOMAIN a : a[i] = b[i]

\* the error envelope of a response built by the dispatcher
Envelope(r) == r.body.json.v
\* its issue list, undefined when the envelope has none
IssuesOf(r) ==
  IF "issues" \in DOMAIN Envelope(r) THEN Envelope(r)["issues"] ELSE UNDEF
MalformedJsonIssues == Arr(<<Obj([message |-> Str("Malformed JSON")])>>)
UnauthorizedText == [t |-> "text", json |-> Obj([message |-> Str("Unauthorized")])]

\* the chain's result was produced by user code (a middleware or the handler)
FromUserCode == replaced \/ shortAt >= 0 \/ handlerCalls > 0
\* the chain's result is a pre-built Response
RawResult == result.kind = "return" /\ IsResponse(result.v)

\* C1: an OPTIONS request is answered 204 with no body and exactly the CORS
\* header set, whatever is registered; no middleware, extraction step or
\* handler runs for it and its body stream is not read.
C1_Preflight ==
  req.method = "OPTIONS" =>
    /\ pc \in {"cors", "done"}
    /\ ran = <<>> /\ steps = <<>> /\ handlerCalls = 0 /\ bodyReads = 0
    /\ ctx = None /\ route = 0
    /\ pc = "done" =>
         /\ response.t = "response"
         /\ response.status = 204
         /\ response.body = NULL
         /\ DOMAIN response.headers = CorsKeys
         /\ response.headers["Access-Control-Allow-Origin"] = "*"
         /\ response.headers["Access-Control-Allow-Headers"]
              = "authorization, x-client-info, apikey, content-type"
         /\ response.headers["Access-Control-Allow-Methods"]
              = "GET, POST, PUT, DELETE, OPTIONS"

\* C1 witness: a preflight for a registered path, with a multipart body, answered
C1_Witness ==
  /\ pc = "done"
  /\ req.method = "OPTIONS"
  /\ req.contentType = "multipart/form-data"
  /\ \E i \in DOMAIN routes : routes[i].path = req.pathname
  /\ response.status = 204

\* C2: the route dispatched is the first one, in registration order, whose
\* path equals the pathname and whose methods contain the method; none is
\* dispatched (404) exactly when no route agrees on both.
C2_FirstMatch ==
  Matched =>
    IF \E i \in DOMAIN routes : Agrees(i)
      THEN /\ route \in DOMAIN routes
           /\ Agrees(route)
           /\ \A j \in 1..(route - 1) : ~Agrees(j)
      ELSE /\ route = 0
           /\ pc = "done"
           /\ response.status = 404

\* C2 witness: two different routes under the same path and method, the
\* first one dispatched
C2_Witness ==
  /\ pc = "handler"
  /\ Len(routes) = 2
  /\ routes[1].path = routes[2].path
  /\ routes[1].methods = routes[2].methods
  /\ routes[1] # routes[2]
  /\ route = 1

\* C3: once a middleware has completed without calling next(), no later
\* middleware runs, no extraction step runs, the body stream is not read
\* and the handler is not invoked.
C3_ShortCircuit ==
  shortAt >= 0 =>
    /\ idx = shortAt
    /\ pc \in {"unwind", "done"}
    /\ Len(ran) = shortAt + 1
    /\ \A i \in DOMAIN ran : ran[i] = i - 1
    /\ steps = <<>> /\ bodyReads = 0
    /\ handlerCalls = 0 /\ ctx = None /\ terminal = None

\* C3 witness: the first of two middleware returned without next() and the
\* request was answered
C3_Witness ==
  /\ pc = "done"
  /\ shortAt = 0
  /\ Len(Chain) = 2
  /\ result.kind = "return"

\* C4 as stated: for every route, the value a short-circuiting middleware
\* returns is the final response: a Response unchanged, the value
\* {status: 401, body: {message: "Unauthorized"}} as status 401 with that body.
C4_Original ==
  (pc = "done" /\ shortAt >= 0 /\ ~replaced /\ result.kind = "return") =>
    /\ IsResponse(result.v) => response = result.v
    /\ (~IsResponse(result.v) /\ result.v = UnauthorizedValue) =>
         /\ response.status = 401
         /\ response.body = UnauthorizedText

\* C4 as amended: the same on a route that declares no response schema; on
\* a route that declares one the value's body is validated first, which
\* gives a 500 "Invalid response data" or the schema's output as the body.
C4_ShortCircuitValue ==
  (pc = "done" /\ shortAt >= 0 /\ ~replaced /\ result.kind = "return") =>
    /\ IsResponse(result.v) => response = result.v
    /\ (~IsResponse(result.v) /\ result.v = UnauthorizedValue) =>
         IF ~Route.responseSchema
           THEN /\ response.status = 401
                /\ response.body = UnauthorizedText
                /\ HasCors(response)
           ELSE \/ /\ response.status = 500
                   /\ Envelope(response)["error"] = Str("Invalid response data")
                   /\ IssuesOf(response) = ZodIssues("response")
                \/ /\ response.status = 401
                   /\ response.body.json =
                        SchemaOut("response", Obj([message |-> Str("Unauthorized")]))

\* C4 witness: the 401 value of a short-circuiting middleware answered as
\* 401 on a route without response schema
C4_Witness ==
  /\ pc = "done"
  /\ shortAt >= 0 /\ ~replaced
  /\ result = Return(UnauthorizedValue)
  /\ ~Route.responseSchema
  /\ response.status = 401

\* C5: at most one read of the request body stream is issued per dispatch.
C5_SingleRead == bodyReads <= 1

\* C6: extraction validates query, then headers, then body and stops at
\* the first failing segment: the terminal action yields a 400 with exactly
\* that segment's issues, no later segment is validated and the handler is
\* not invoked; that 400 is the response unless a middleware replaces it.
C6_FirstFailure ==
  route > 0 =>
    /\ IsPrefix(Validated, Declared)
    /\ failed # "" =>
         /\ pc \in {"unwind", "done"}
         /\ handlerCalls = 0 /\ ctx = None
         /\ \A i \in DOMAIN Validated :
              /\ failed = "query" => Validated[i] = "query"
              /\ failed = "headers" => Validated[i] \in {"query", "headers"}
         /\ terminal.kind = "return"
         /\ terminal.v.status = 400
         /\ Envelope(terminal.v)["success"] = Bool(FALSE)
         /\ Envelope(terminal.v)["error"] = Str("Invalid " \o failed)
         /\ failed \in {"query", "headers"} =>
              IssuesOf(terminal.v) = ZodIssues(failed)
         /\ (pc = "done" /\ ~replaced) => response = terminal.v

\* C6 witness: query passed, headers failed, the 400 was sent
C6_Witness ==
  /\ pc = "done"
  /\ failed = "headers"
  /\ Validated = <<"query", "headers">>
  /\ ~replaced
  /\ response.status = 400

\* C7: on a route with a body schema, a JSON body that parses and fails the
\* schema yields a 400 whose issues are the validator's, and the handler is
\* not invoked.
C7_BodySchemaFailure ==
  (route > 0 /\ failed = "body" /\ Len(steps) > 0 /\ steps[Len(steps)] = "body"
     /\ includesJson(req.contentType)) =>
    /\ Route.bodySchema
    /\ req.payload = "json"
    /\ handlerCalls = 0
    /\ terminal.kind = "return"
    /\ terminal.v.status = 400
    /\ Envelope(terminal.v)["success"] = Bool(FALSE)
    /\ Envelope(terminal.v)["error"] = Str("Invalid body")
    /\ IssuesOf(terminal.v) = ZodIssues("body")
    /\ (pc = "done" /\ ~replaced) =>
         response.status = 400 /\ IssuesOf(response) = ZodIssues("body")

\* C7 witness: a parsed JSON body rejected by the schema and answered 400
C7_Witness ==
  /\ pc = "done"
  /\ failed = "body"
  /\ req.contentType = "application/json" /\ req.payload = "json"
  /\ steps[Len(steps)] = "body"
  /\ ~replaced
  /\ response.status = 400

\* the body step of the extraction has been done for the request in flight
BodyStepDone ==
  \/ pc = "handler"
  \/ pc \in {"unwind", "done"} /\ (failed = "body" \/ handlerCalls > 0)

\* C8: on a route with a body schema, a non-multipart request (whatever its
\* content-type) whose payload is not JSON gets a 400 with the single
\* malformed-body issue, and the schema is not run.
C8_MalformedBody ==
  (route > 0 /\ BodyStepDone /\ Route.bodySchema
     /\ ~includesMultipart(req.contentType) /\ req.payload = "garbage") =>
    /\ failed = "body"
    /\ handlerCalls = 0
    /\ \A i \in DOMAIN steps : steps[i] # "body"
    /\ terminal.v.status = 400
    /\ IssuesOf(terminal.v) = MalformedJsonIssues

\* C9 as stated: every response emitted carries the three CORS headers.
C9_Original == pc = "done" => HasCors(response)

\* C9 as amended: every response the dispatcher builds (preflight, 404, 400,
\* 500, normalized result) carries the three CORS headers; a pre-built
\* Response returned by a middleware or the handler is emitted as it is.
C9_CorsOnBuilt ==
  pc = "done" =>
    IF FromUserCode /\ RawResult
      THEN response = result.v
      ELSE HasCors(response)

\* C9 witness: a shaped handler result with headers of its own, normalized
C9_Witness ==
  /\ pc = "done"
  /\ handlerCalls = 1 /\ ~replaced
  /\ result = Return(CreatedValue)
  /\ response.status = 201
  /\ "X-Id" \in DOMAIN response.headers
  /\ HasCors(response)

\* C10: a chain result that is a pre-built Response is emitted as it is (no
\* scrubbing, no header merge, no status change, no response-schema check),
\* and normalizing the emitted Response again gives it back.
C10_RawPassthrough ==
  (pc = "done" /\ RawResult) =>
    /\ response = result.v
    /\ \A rsOk \in BOOLEAN : normalize(response, Route, rsOk) = Return(response)

\* C10 witness: a Response from the handler of a route that declares a
\* response schema, emitted
C10_Witness ==
  /\ pc = "done"
  /\ handlerCalls = 1 /\ ~replaced
  /\ result = Return(FileResponse)
  /\ Route.responseSchema
  /\ response = FileResponse

\* a non-raw chain result has been answered
NonRaw == pc = "done" /\ result.kind = "return" /\ ~IsResponse(result.v)
\* the result is a mapping with one of the keys status, body, headers
Shaped(v) == Has(v, "status") \/ Has(v, "body") \/ Has(v, "headers")
\* the result's status, if it has one, is a number
ValidStatus(v) == Has(v, "status") => v.v.status.t = "number"
\* the wire body of a value: a string as it is, anything else as JSON text
TextOf(v) == IF v.t = "string" THEN v ELSE [t |-> "text", json |-> v]
\* every undefined replaced by the empty string, at every depth
RECURSIVE ScrubAll(_)
ScrubAll(v) ==
  CASE v.t = "undefined" -> Str("")
    [] v.t = "array" -> Arr([i \in DOMAIN v.v |-> ScrubAll(v.v[i])])
    [] v.t = "object" -> Obj([k \in DOMAIN v.v |-> ScrubAll(v.v[k])])
    [] OTHER -> v
\* the default header of a normalized response under key k
DefaultHeader(k) == IF k = "Content-Type" THEN "application/json" ELSE corsHeaders[k]

\* C11: normalization replaces every undefined of a non-raw result by the
\* empty string at every depth (top level, mapping value, array element):
\* {a: undefined, b: [1, undefined, 3]} is sent as {"a":"","b":[1,"",3]}.
C11_ScrubEverywhere ==
  (NonRaw /\ ~Route.responseSchema /\ ~Shaped(result.v)) =>
    /\ response.body = TextOf(ScrubAll(result.v))
    /\ result.v = ScrubValue =>
         response.body =
           [t |-> "text",
            json |-> Obj([a |-> Str(""), b |-> Arr(<<Num(1), Str(""), Num(3)>>)])]

\* C12: for a result that is a mapping with one of status, headers, body,
\* the response body is the body key's value if present, else the data
\* key's value if present, else the mapping without status and headers.
C12_BodyResolution ==
  (NonRaw /\ ~Route.responseSchema /\ Shaped(result.v) /\ ValidStatus(result.v)) =>
    LET s == ScrubAll(result.v)
        rest == Obj([k \in DOMAIN s.v \ {"status", "headers"} |-> s.v[k]])
    IN  response.body =
          TextOf(IF Has(s, "body") THEN s.v.body
                 ELSE IF Has(s, "data") THEN s.v.data
                 ELSE rest)

\* C13: a shaped result with status and headers is sent with the handler's
\* status and with the default Content-Type and CORS headers overlaid by
\* the handler's headers: a handler header wins on a key both have, every
\* other default is kept; {status: 201, headers: {X-Id: 7}, data: {ok: true}}
\* gives 201, X-Id: 7 plus CORS, body {"ok": true}.
C13_StatusAndHeaders ==
  (NonRaw /\ Has(result.v, "status") /\ Has(result.v, "headers")
     /\ ValidStatus(result.v)) =>
    LET h == result.v.v.headers.v
        defaults == {"Content-Type"} \cup CorsKeys
    IN  /\ \/ /\ Route.responseSchema
              /\ response.status = 500
              /\ Envelope(response)["error"] = Str("Invalid response data")
           \/ /\ response.status = result.v.v.status.v
              /\ DOMAIN response.headers = defaults \cup DOMAIN h
              /\ \A k \in DOMAIN h : response.headers[k] = h[k].v
              /\ \A k \in defaults \ DOMAIN h : response.headers[k] = DefaultHeader(k)
        /\ (result.v = CreatedValue /\ ~Route.responseSchema) =>
             /\ response.status = 201
             /\ response.headers["X-Id"] = "7"
             /\ HasCors(response)
             /\ response.body = [t |-> "text", json |-> Obj([ok |-> Bool(TRUE)])]

\* C13 witness: a handler that overrides Content-Type and adds X-Id, answered
C13_Witness ==
  /\ NonRaw
  /\ result.v = OverrideValue
  /\ response.status = 200
  /\ response.headers["Content-Type"] = "text/plain"
  /\ response.headers["X-Id"] = "7"
  /\ response.headers["Access-Control-Allow-Origin"] = "*"

\* C14: an exception thrown by a middleware, by extraction or by the
\* handler, and not caught by a middleware, is answered with one Response
\* of status 500 whose error is the exception's message, or the generic
\* message when it has none; what the dispatcher returns is always a
\* Response.
C14_CaughtException ==
  pc = "done" =>
    /\ IsResponse(response)
    /\ result.kind = "throw" =>
         /\ response.status = 500
         /\ Envelope(response)["success"] = Bool(FALSE)
         /\ Envelope(response)["error"] =
              (IF result.v.message.t = "undefined" \/ result.v.message = Str("")
                 THEN Str("Internal server error") ELSE result.v.message)
         /\ HasCors(response)

\* C14 witness: the query schema threw below a middleware that awaited
\* next(), and the 500 was sent
C14_Witness ==
  /\ pc = "done"
  /\ terminal = Throw(Boom)
  /\ result = Throw(Boom)
  /\ steps = <<"query">>
  /\ Len(ran) > 0
  /\ response.status = 500
  /\ Envelope(response)["error"] = Str("boom")

\* C15: a non-OPTIONS request that no route answers on both path and
\* method, also when its path is registered under another method, gets the
\* 404 JSON error, and no middleware, validation step or handler runs.
C15_NotFound ==
  (pc = "done" /\ req.method # "OPTIONS" /\ ~\E i \in DOMAIN routes : Agrees(i)) =>
    /\ route = 0
    /\ response.status = 404
    /\ Envelope(response)["success"] = Bool(FALSE)
    /\ Envelope(response)["error"] = Str("Not Found")
    /\ ran = <<>> /\ steps = <<>> /\ bodyReads = 0
    /\ handlerCalls = 0 /\ ctx = None /\ result = None

\* C15 witness: a POST to a path registered, with a middleware, under GET only
C15_Witness ==
  /\ pc = "done"
  /\ req.method = "POST"
  /\ \E i \in DOMAIN routes :
       /\ routes[i].path = req.pathname
       /\ routes[i].methods = <<"GET">>
       /\ Len(routes[i].middlewares) > 0
  /\ \A i \in DOMAIN routes : routes[i].methods = <<"GET">>
  /\ response.status = 404

\* the response was generated by the dispatcher as a failure: no route, a
\* request validation failure, a caught exception, a response-schema failure
ValidationFailure == failed # "" /\ ~replaced
SchemaFailure == result.kind = "return" /\ ~IsResponse(result.v) /\ response.status = 500
FailureResponse ==
  /\ pc = "done"
  /\ \/ req.method # "OPTIONS" /\ route = 0
     \/ ValidationFailure
     \/ result.kind = "throw"
     \/ SchemaFailure

\* C16: every failure response of the dispatcher has a JSON body with
\* success false and an error string, an issues list exactly when one was
\* reported, a status among 400, 404, 405, 500, the CORS headers and a JSON
\* content type.
C16_ErrorEnvelope ==
  FailureResponse =>
    /\ response.status \in {400, 404, 405, 500}
    /\ response.body.t = "text"
    /\ response.body.json.t = "object"
    /\ {"success", "error"} \subseteq DOMAIN Envelope(response)
    /\ DOMAIN Envelope(response) \subseteq {"success", "error", "issues"}
    /\ Envelope(response)["success"] = Bool(FALSE)
    /\ Envelope(response)["error"].t = "string"
    /\ "issues" \in DOMAIN Envelope(response) <=>
         (result.kind = "return" /\ (ValidationFailure \/ SchemaFailure))
    /\ "issues" \in DOMAIN Envelope(response) => IssuesOf(response).t = "array"
    /\ HasCors(response)
    /\ "Content-Type" \in DOMAIN response.headers
    /\ response.headers["Content-Type"] = "application/json"

\* C16 witness: the handler's result was rejected by the response schema
C16_Witness ==
  /\ pc = "done"
  /\ handlerCalls = 1 /\ ~replaced
  /\ result = Return(HelloValue)
  /\ Route.responseSchema
  /\ response.status = 500
  /\ IssuesOf(response) = ZodIssues("response")

\* the body that lines 859-868 resolve from a non-raw result
ResolvedBody(v) ==
  LET s == replaceUndefinedWithEmpty(v)
  IN  IF Shaped(s)
        THEN IF Has(s, "body") THEN s.v.body
             ELSE Coalesce(Prop(s, "data"), Prop(s, "body"))
        ELSE s

WithSlash(seg) == IF startsWithSlash(seg) THEN seg ELSE <<"/">> \o seg
\* a sub-path that is neither empty nor "/"
Proper(seg) == seg # <<>> /\ seg # <<"/">>
\* the proxies enclosing route i, from the outermost on
ChainAt(i) == ChainOf(proxies, regLog[i].via)
\* the group sub-paths of route i from the outermost group on, then its own
SegmentsOf(i) ==
  LET chain == ChainAt(i)
  IN  [k \in 1..Len(chain) |-> proxies[chain[k]].sub] \o <<regLog[i].path>>
\* the segments joined, each with one '/'
RECURSIVE Joined(_)
Joined(segs) ==
  IF segs = <<>> THEN <<>>
  ELSE Joined(SubSeq(segs, 1, Len(segs) - 1)) \o WithSlash(segs[Len(segs)])
\* the segments joined, an empty or "/" segment adding nothing
RECURSIVE Collapsed(_)
Collapsed(segs) ==
  IF segs = <<>> THEN <<>>
  ELSE Collapsed(SubSeq(segs, 1, Len(segs) - 1))
         \o (IF Proper(segs[Len(segs)]) THEN WithSlash(segs[Len(segs)]) ELSE <<>>)

\* the middleware of route i that are not its own
InheritedPart(i) ==
  SelectSeq(routes[i].middlewares, LAMBDA x : ~Includes(regLog[i].own, x))
\* the first n middleware given to the root (k = 0) or to the k-th proxy
\* of the chain
UsedBy(chain, k, n) ==
  SubSeq(IF k = 0 THEN middlewares ELSE proxies[chain[k]].own, 1, n)
\* everything the root and the enclosing groups had been given when
\* route i was registered, from the outermost on, up to level k
RECURSIVE AllGiven(_, _, _)
AllGiven(i, chain, k) ==
  IF k < 0 THEN <<>>
  ELSE AllGiven(i, chain, k - 1) \o UsedBy(chain, k, regLog[i].uses[k + 1])
\* what each level had been given when the next group was made from it,
\* and the innermost group when route i was registered
RECURSIVE GivenInTime(_, _, _)
GivenInTime(i, chain, k) ==
  IF k < 0 THEN <<>>
  ELSE GivenInTime(i, chain, k - 1)
         \o UsedBy(chain, k, IF k = Len(chain) THEN regLog[i].uses[k + 1]
                             ELSE proxies[chain[k + 1]].seen)
ThroughGroup == {i \in DOMAIN routes : regLog[i].via # 0}

\* C18: the middleware list of a route registered through a group is the
\* group-inherited middleware followed by the route's own, so that every
\* group middleware runs before every middleware declared on the route.
C18_GroupBeforeRoute ==
  \A i \in ThroughGroup :
    LET m == routes[i].middlewares
        own == regLog[i].own
        n == Len(m) - Len(own)
    IN  /\ n >= 0
        /\ SubSeq(m, n + 1, Len(m)) = own
        /\ \A j \in 1..n : ~Includes(own, m[j])

\* C19 as stated: a route registered in the innermost of nested groups has
\* the concatenation of the groups' prefixes and its sub-path as path, and
\* inherits all the middleware of the enclosing groups, outer to inner,
\* each group's in the order of its use() calls.
C19_Original ==
  \A i \in ThroughGroup :
    /\ (\A k \in DOMAIN SegmentsOf(i) : Proper(SegmentsOf(i)[k])) =>
         routes[i].path = Joined(SegmentsOf(i))
    /\ InheritedPart(i) = AllGiven(i, ChainAt(i), Len(ChainAt(i)))

\* C19 as amended: the same path, and the route inherits, outer to inner
\* and in use() order, the middleware each enclosing level had been given
\* by the time the next inner group was made from it, then what the
\* innermost group had been given by the time the route was registered.
C19_NestedGroups ==
  \A i \in ThroughGroup :
    /\ (\A k \in DOMAIN SegmentsOf(i) : Proper(SegmentsOf(i)[k])) =>
         routes[i].path = Joined(SegmentsOf(i))
    /\ InheritedPart(i) = GivenInTime(i, ChainAt(i), Len(ChainAt(i)))

\* C19 witness: a route three groups deep that inherits one middleware
\* from the root and one from each of two groups
C19_Witness ==
  \E i \in ThroughGroup :
    /\ Len(ChainAt(i)) = 3
    /\ routes[i].path = <<"/", "g", "/", "g", "/", "g", "/", "x">>
    /\ routes[i].middlewares = <<"auth", "log", "tag">>

\* C20: every registered path starts with '/', each prefix is joined to its
\* sub-path by exactly one '/', and a sub-path of "/" or "" in a group call
\* or in a route registration gives the prefix itself, without trailing '/'.
C20_PathNormalization ==
  \A i \in DOMAIN routes :
    /\ startsWithSlash(routes[i].path)
    /\ (i \in ThroughGroup /\ Collapsed(SegmentsOf(i)) # <<>>) =>
         routes[i].path = Collapsed(SegmentsOf(i))

\* C21: the context handed to the handler holds, for the query and for the
\* headers, the schema's normalized output when the route declares the
\* schema and the request's raw mapping (for the headers: with lower-cased
\* names) when it declares none.
C21_ContextInputs ==
  (route > 0 /\ handlerCalls > 0) =>
    /\ ctx.validatedQuery =
         IF Route.querySchema THEN SchemaOut("query", QueryObj) ELSE QueryObj
    /\ ctx.validatedHeaders =
         IF Route.headersSchema THEN SchemaOut("headers", HeadersObj(req))
         ELSE HeadersObj(req)

\* the number of times step x was performed for the request in flight
TimesDone(x) == Len(SelectSeq(steps, LAMBDA y : y = x))
\* the mapping of the fields and files of the uploaded form
FormFields == Obj([file |-> File("a.png"), name |-> Str("x")])

\* C22: when the handler of a route with a body schema runs for a multipart
\* request, the schema was run once on the mapping of the form's fields and
\* files, the context's body is the schema's output for that mapping, and
\* the context's form data is the form parsed by the one read of the stream.
C22_MultipartBody ==
  (route > 0 /\ handlerCalls > 0 /\ Route.bodySchema
     /\ includesMultipart(req.contentType)) =>
    /\ req.payload = "form"
    /\ TimesDone("body") = 1
    /\ ctx.validatedBody = SchemaOut("body", FormFields)
    /\ ctx.formData = FormPayload
    /\ bodyReads = 1

\* C22 witness: a POST upload validated and handed to the handler
C22_Witness ==
  /\ pc = "done"
  /\ handlerCalls = 1
  /\ req.method = "POST"
  /\ req.contentType = "multipart/form-data"
  /\ Route.bodySchema
  /\ ctx.validatedBody = SchemaOut("body", FormFields)
  /\ ctx.formData = FormPayload

\* the single-handler callback is past its method check
PastMethodCheck ==
  pc \in {"s_query", "s_headers", "s_body", "s_handler", "s_respond", "done"}

\* C23: in serve(handler, options), a non-OPTIONS request whose method is
\* not in options.methods is answered with the 405 error envelope, and for
\* it no query, header or body validation is done, the body stream is not
\* read and the handler is not invoked; an OPTIONS request is answered 204
\* whatever options.methods holds.
C23_MethodNotAllowed ==
  /\ (PastMethodCheck /\ req.method # "OPTIONS"
        /\ options.methods.t # "undefined"
        /\ ~Includes(options.methods.v, req.method)) =>
       /\ pc = "done"
       /\ response.status = 405
       /\ Envelope(response)["success"] = Bool(FALSE)
       /\ Envelope(response)["error"] = Str("Method Not Allowed")
       /\ IssuesOf(response) = UNDEF
       /\ HasCors(response)
       /\ steps = <<>> /\ bodyReads = 0 /\ handlerCalls = 0 /\ ctx = None
  /\ (pc = "done" /\ req.method = "OPTIONS") =>
       /\ response.status = 204
       /\ response.body = NULL
       /\ steps = <<>> /\ bodyReads = 0 /\ handlerCalls = 0

\* C23 witness: a GET with a JSON body to serve(handler, {methods: ["POST"],
\* all schemas}) answered 405
C23_Witness ==
  /\ pc = "done"
  /\ req.method = "GET"
  /\ req.contentType = "application/json"
  /\ options.methods = Arr(<<"POST">>)
  /\ options.querySchema /\ options.bodySchema
  /\ response.status = 405

\* the terminal action (extraction, then the handler) has started
TerminalStarted ==
  pc \in {"query", "headers", "body", "handler"} \/ steps # <<>>
    \/ handlerCalls > 0 \/ terminal # None
\* the number of middleware that have invoked their continuation
Continued == Len(ran) - (IF shortAt >= 0 THEN 1 ELSE 0)

\* C24: the middleware of the matched route are invoked by dispatch(0),
\* dispatch(1), ... in that order, each one started by the continuation of
\* the one before it; the terminal action starts only when all of them
\* have invoked their continuation; and a middleware goes on after its
\* continuation only once everything deeper (the terminal action, or a
\* middleware that did not continue) has completed.
C24_DispatchOrder ==
  route > 0 =>
    /\ Len(ran) <= Len(Chain)
    /\ \A k \in DOMAIN ran : ran[k] = k - 1
    /\ idx = Continued
    /\ depth <= Continued
    /\ pc = "dispatch" => (depth = Continued /\ shortAt = -1)
    /\ TerminalStarted =>
         /\ Continued = Len(Chain)
         /\ shortAt = -1
    /\ pc \in {"query", "headers", "body", "handler"} => depth = Len(Chain)
    /\ depth < Continued =>
         /\ pc \in {"unwind", "done"}
         /\ terminal # None \/ shortAt >= 0
    /\ pc = "done" => depth = 0

\* C24 witness: both middleware of a route ran, then the handler, and both
\* middleware resumed before the response
C24_Witness ==
  /\ pc = "done"
  /\ route > 0
  /\ Len(Chain) = 2
  /\ ran = <<0, 1>>
  /\ handlerCalls = 1
  /\ depth = 0

\* the phases of a request in the order the callback enters them: preflight
\* check, route match, middleware chain, extraction, handler, the way back
\* up through the awaiting middleware, and the response (normalization and
\* return are one step)
Phase(p) ==
  CASE p = "idle" -> 0
    [] p = "cors" -> 1
    [] p = "find" -> 2
    [] p = "dispatch" -> 3
    [] p \in {"query", "headers", "body"} -> 4
    [] p = "handler" -> 5
    [] p = "unwind" -> 6
    [] p = "done" -> 7

C26_BodyUnreadUntilValidated ==
  route > 0 =>
    /\ bodyReads > 0 =>
         (pc \in {"body", "handler", "unwind", "done"} /\ failed \notin {"query", "headers"})
    /\ failed \in {"query", "headers"} => bodyReads = 0

\* C27: what a middleware completes with reaches the caller of dispatch(0)
\* unchanged: with no middleware replacing it, the chain's result is the
\* terminal action's result (or, after a short circuit, that middleware's
\* value); a middleware that continues and then completes with something
\* else replaces the deeper result, a 400 of the extraction included; and
\* the response is made of the chain's result and of nothing else.
C27_ResultPropagation ==
  (route > 0 /\ pc \in {"unwind", "done"}) =>
    /\ Len(Chain) = 0 => (~replaced /\ shortAt = -1)
    /\ (~replaced /\ shortAt = -1) => result = terminal
    /\ (~replaced /\ shortAt >= 0) =>
         /\ terminal = None
         /\ result \in {Return(v) : v \in MiddlewareValues} \cup {Throw(e) : e \in ThrownValues}
    /\ replaced =>
         /\ result \in ReplaceOutcomes
         /\ depth < Continued
    /\ pc = "done" =>
         \E rsOk \in BOOLEAN :
           response = catchAll(IF result.kind = "throw" THEN result
                               ELSE normalize(result.v, Route, rsOk))

\* C27 witness: the 400 of a failed query validation replaced by the 401
\* value of a middleware that had called next()
C27_Witness ==
  /\ pc = "done"
  /\ failed = "query"
  /\ terminal.v.status = 400
  /\ replaced
  /\ result = Return(UnauthorizedValue)
  /\ response.status # 400

\* every middleware of the matched route has invoked its continuation
AllContinued == shortAt = -1 /\ Continued = Len(Chain)
\* query, header and body validation have all succeeded
AllValid ==
  /\ failed = ""
  /\ Validated = Declared
  /\ ~(terminal.kind = "throw" /\ ctx = None)
\* the handler is invoked at most once, and exactly once for exactly the
\* answered requests that are no preflight, match a route, get through all
\* its middleware and pass every validation
HandlerOnceIff ==
  /\ handlerCalls <= 1
  /\ pc = "done" =>
       (handlerCalls = 1 <=>
          (req.method # "OPTIONS" /\ route > 0 /\ AllContinued /\ AllValid))

\* C28: with middleware that invoke their continuation at most once, the
\* handler is invoked at most once per request and the body stream is read
\* at most once; the handler is invoked exactly once if and only if the
\* request is not OPTIONS, a route matches, every middleware of the route
\* invokes its continuation and the three validations succeed.
C28_AtMostOnce ==
  /\ HandlerOnceIff
  /\ bodyReads <= 1

\* C29: a normalized response has the status the handler's result gives
\* when it gives a number, and 200 otherwise: for a plain value, for a
\* shaped result without status and for a status of undefined.
C29_StatusDefault ==
  (NonRaw /\ route > 0 /\ ~Route.responseSchema) =>
    response.status =
      IF Has(result.v, "status") /\ result.v.v.status.t = "number"
        THEN result.v.v.status.v
        ELSE 200

\* C30: registration only appends to the registry: a use(), base()/group()
\* or route-registration call leaves every route already registered at its
\* position with its path, methods, schemas and middleware list, and adds
\* at most one route, at the end; in particular use() on a group does not
\* change the routes registered through it before.
C30_AppendOnly ==
  [][/\ Len(routes') \in {Len(routes), Len(routes) + 1}
     /\ \A i \in DOMAIN routes : routes'[i] = routes[i]
     /\ \A i \in DOMAIN regLog : regLog'[i] = regLog[i]]_regVars

\* C30 witness: a group was given a middleware after a route had been
\* registered through it, the route does not have it, and another route
\* has been appended since
C30_Witness ==
  \E i \in ThroughGroup :
    LET p == regLog[i].via
        given == proxies[p].own
    IN  /\ Len(given) > regLog[i].uses[Len(regLog[i].uses)]
        /\ ~Includes(routes[i].middlewares, given[Len(given)])
        /\ Len(routes) > i
        /\ Includes(routes[Len(routes)].middlewares, given[Len(given)])

\* the middleware a group started with
InheritedBy(q) ==
  SubSeq(proxies[q].middlewares, 1,
         Len(proxies[q].middlewares) - Len(proxies[q].own))
\* the middleware list the group q was made from: the root's or a group's
ParentList(ps, mws, q) ==
  IF ps[q].parent = 0 THEN mws ELSE ps[ps[q].parent].middlewares
\* the groups made from the same parent as q
Siblings(q) ==
  {r \in DOMAIN proxies : r # q /\ proxies[r].parent = proxies[q].parent}

\* C31: use() on a group changes the middleware list of that group only
\* (not its parent's, the root's or a sibling's); a group made by
\* base()/group() starts with exactly the list its parent has at that
\* moment; and at any time a group's list is what its parent had been given
\* when the group was made followed by what the group itself was given.
C31_GroupIsolation ==
  /\ [][/\ \A q \in DOMAIN proxies :
             proxies'[q].own = proxies[q].own =>
               proxies'[q].middlewares = proxies[q].middlewares
        /\ (\E q \in DOMAIN proxies : proxies'[q].own # proxies[q].own) =>
             middlewares' = middlewares
        /\ \A q \in DOMAIN proxies' \ DOMAIN proxies :
             proxies'[q].middlewares = ParentList(proxies', middlewares, q)]_regVars
  /\ [](\A q \in DOMAIN proxies :
          /\ Len(proxies[q].own) <= Len(proxies[q].middlewares)
          /\ proxies[q].middlewares = InheritedBy(q) \o proxies[q].own
          /\ InheritedBy(q) =
               IF proxies[q].parent = 0
                 THEN SubSeq(middlewares, 1, proxies[q].seen)
                 ELSE InheritedBy(proxies[q].parent)
                        \o SubSeq(proxies[proxies[q].parent].own, 1, proxies[q].seen))

\* C31 witness: a group with two sub-groups; one sub-group was given a
\* middleware that its parent and its sibling do not have, and the parent
\* was given one after making the sub-groups that neither of them has
C31_Witness ==
  \E q \in DOMAIN proxies :
    /\ proxies[q].parent # 0
    /\ Siblings(q) # {}
    /\ proxies[q].own # <<>>
    /\ LET par == proxies[q].parent
           mine == proxies[q].own[1]
           late == proxies[par].own
       IN  /\ ~Includes(proxies[par].middlewares, mine)
           /\ \A r \in Siblings(q) : ~Includes(proxies[r].middlewares, mine)
           /\ Len(late) > proxies[q].seen
           /\ ~Includes(proxies[q].middlewares, late[Len(late)])
           /\ \A r \in Siblings(q) : ~Includes(proxies[r].middlewares, late[Len(late)])

\* the locals of invocation k of the callback, running or suspended
LocalsOf(k) == IF parked.id = k THEN parked.locals ELSE Locals
\* what the invocation with locals l holds comes from its own request: its
\* route is the one its request matches, its form data is read from its own
\* body, its context holds its own extracted values, and its response is
\* the one its own chain result gives
OwnOutcome(l) ==
  /\ l.route # 0 => l.route = findRoute(routes, l.req.method, l.req.pathname)
  /\ l.formData # UNDEF => l.formData = parseFormData(l.req, FALSE).formData
  /\ l.ctx # None =>
       l.ctx = [formData |-> l.formData, validatedBody |-> l.validatedBody,
                validatedQuery |-> l.validatedQuery,
                validatedHeaders |-> l.validatedHeaders, params |-> EmptyObj]
  /\ l.pc = "done" =>
       IF handleCors(l.req).t # "undefined" THEN l.response = handleCors(l.req)
       ELSE IF findRoute(routes, l.req.method, l.req.pathname) = 0
         THEN l.response = errorResponse(Str("Not Found"), 404, UNDEF)
       ELSE \E rsOk \in BOOLEAN :
              l.response = catchAll(IF l.result.kind = "throw" THEN l.result
                                    ELSE normalize(l.result.v, routes[l.route], rsOk))

\* C32: while requests are dispatched the registry does not change; a step
\* of one request leaves everything the other request holds (chain index,
\* form data, validated values, context, result, response) as it was,
\* wherever the two are suspended and resumed; and what each request holds
\* and is answered with is determined by its own request.
C32_RequestIsolation ==
  /\ [][/\ serving => (routes' = routes /\ middlewares' = middlewares)
        /\ \A k \in {1, 2} :
             (Running' # Running \/ Running # k) => LocalsOf(k)' = LocalsOf(k)]_vars
  /\ [](\A k \in {1, 2} : OwnOutcome(LocalsOf(k)))

\* C32 witness: a multipart request and a JSON request are in flight
\* together, the first suspended after its form data was parsed and its
\* middleware ran, the second past its own parse and validations with no
\* form data
C32_Witness ==
  /\ parked.id # 0
  /\ parked.locals.req.contentType = "multipart/form-data"
  /\ parked.locals.formData # UNDEF
  /\ parked.locals.pc = "handler"
  /\ req.contentType = "application/json"
  /\ pc = "done"
  /\ handlerCalls = 1
  /\ ctx # None
  /\ ctx.formData = UNDEF

\* C33: if the middleware and the handler always return or throw and the
\* body reads always settle, every dispatched request is eventually
\* answered with a response: the dispatcher's own code never blocks.
C33_Termination ==
  (WF_vars(UserStep) /\ WF_vars(BodyReadStep)) =>
    ((pc # "idle") ~> (pc = "done" /\ response # None))

\* C33 witness: a request whose chain ran two middleware, whose multipart
\* body was read, and whose handler was called, has its response
C33_Witness ==
  /\ pc = "done"
  /\ response # None
  /\ Len(ran) = 2
  /\ bodyReads >= 1
  /\ req.contentType = "multipart/form-data"
  /\ handlerCalls = 1
  /\ ~replaced

\* the up-front parse of a multipart POST/PUT body was attempted for the
\* request in flight and the body did not decode
DecodeFailed ==
  /\ route > 0
  /\ req.method \in {"POST", "PUT"}
  /\ includesMultipart(req.contentType)
  /\ req.payload = "garbage"
  /\ Includes(steps, "read")
\* the terminal action ended with an exception of user code: the handler
\* threw, or a schema threw while it was run
ThrownByUserCode ==
  terminal.kind = "throw" /\ (handlerCalls = 1 \/ Validated # <<>>)
\* the terminal action has got past the query and the headers
PastHeaders ==
  \/ pc \in {"body", "handler"}
  \/ /\ pc \in {"unwind", "done"}
     /\ terminal # None
     /\ failed \notin {"query", "headers"}
     /\ ~(terminal.kind = "throw" /\ handlerCalls = 0)

\* C34: after a multipart POST/PUT body failed to decode, the form data is
\* absent and nothing is thrown for it, so that no 500 comes from it: the
\* only exception the terminal action can end with is one of user code;
\* on a route without body schema the handler is invoked, with no form
\* data, once the query and the headers have passed; on a route with a
\* body schema the terminal action then ends with the 400 "Invalid body",
\* the handler not invoked, and that 400 is the response unless a
\* middleware replaces it.
C34_DecodeFailure ==
  DecodeFailed =>
    /\ formData = UNDEF
    /\ terminal # None =>
         /\ terminal.kind = "throw" => ThrownByUserCode
         /\ (handlerCalls = 0 /\ terminal.kind = "return") => terminal.v.status = 400
    /\ (PastHeaders /\ ~Route.bodySchema) =>
         /\ failed = ""
         /\ pc \in {"unwind", "done"} =>
              (handlerCalls = 1 /\ ctx.formData = UNDEF /\ ctx.validatedBody = UNDEF)
    /\ (PastHeaders /\ Route.bodySchema /\ pc # "body") =>
         /\ failed = "body"
         /\ handlerCalls = 0
         /\ terminal.v.status = 400
         /\ Envelope(terminal.v)["error"] = Str("Invalid body")
         /\ (pc = "done" /\ ~replaced) => response.status = 400

\* C34 witness, no body schema: the handler was invoked without form data
\* after the decoding failed
C34_Witness ==
  /\ DecodeFailed
  /\ ~Route.bodySchema
  /\ pc = "done"
  /\ handlerCalls = 1
  /\ ctx.formData = UNDEF
  /\ response.status = 200

====
